---- MODULE Spec2Model ----
(***************************************************************************)
(* Render/encode orchestration pipeline of the video renderer.             *)
(*                                                                         *)
(* The model covers the task registry (RenderTaskManager), the submit      *)
(* handler (POST) and the detached worker (performRender): audio           *)
(* validation, surface launch, the batched frame loop, the encoder with    *)
(* its deadline, the audio mixer, the file replacement, the frame cleanup  *)
(* and the result / error payloads.                                        *)
(*                                                                         *)
(* Numbers: a duration is counted in half seconds (durHalves / 2 s), so    *)
(* that duration * fps need not be an integer; progress arithmetic is on   *)
(* integers, floor((a / b) * c) being (a * c) \div b.                      *)
(***************************************************************************)
EXTENDS Integers, Sequences, FiniteSets, TLC

(* ------------------------------ bounds --------------------------------- *)

\* Durations submitted: 1 .. MaxDurHalves half seconds.
MaxDurHalves == 3

\* Frame rates submitted: omitted, or 1 .. MaxFps.
MaxFps == 3

\* Audio tracks of a request: 0 .. MaxTracks.
MaxTracks == 2
\* A duration (in half seconds) long enough that 10 s per second of video
\* exceeds the 30 s floor of the encoder deadline.
LongDurHalves == 7
\* Tracks of a job whose audio validation is followed track by track.
MaxAudioTracks == 4

(* --------------------------- program constants ------------------------- *)

\* const fps = requestedFps || 24
DefaultFps == 24

\* const batchSize = 2
batchSize == 2

\* progress after a successful audio validation / base of all later stages
AudioBase == 10

\* share of the progress range given to the frame loop
FrameShare == 65

\* share of the progress range given to the encoder
EncodeShare == 20

\* share of the progress range given to the mixer
MixShare == 5

(* ------------------------------ identities ----------------------------- *)

\* Task ids the registry may hold.
AllIds == {"t1", "t2"}

\* Task ids submitted under Spec: one job, followed through every stage.
SpecIds == {"t1"}

\* An omitted fps (fps?: number left undefined).
NoFps == 0

\* Percent values an encoder or mixer progress report may carry.  0 stands
\* for a report without a usable percent (undefined, NaN or 0); values above
\* 100 occur when the process misjudges the input's length.
Percents == {0, 40, 100, 130}

\* What one invocation of the render function may do.
RenderOutcomes == {"string", "object", "objectWaitUntil", "throw"}

Min(a, b) == IF a < b THEN a ELSE b

Max(a, b) == IF a > b THEN a ELSE b

(* --------------------------- RenderTaskManager ------------------------- *)

\* Date.now() and new Date(), in ms.
VARIABLE now

\* task.result before setTaskResult: undefined.
NoResult ==
    [present |-> FALSE, success |-> FALSE, hasVideo |-> FALSE, frames |-> 0,
     fps |-> 0, durHalves |-> 0, error |-> "", details |-> ""]

\* updateTaskStatus called without its optional progress argument.
NoProgress == -1

createTask_NoInsert(tasks, id, parameters) == tasks

createTask(tasks, id, parameters) ==
    [k \in DOMAIN tasks \cup {id} |->
        IF k = id
        THEN [status |-> "pending", progress |-> 0, result |-> NoResult,
              parameters |-> parameters, createdAt |-> now, updatedAt |-> now]
        ELSE tasks[k]]

updateTaskStatus(tasks, id, status, progress) ==
    IF id \in DOMAIN tasks
    THEN [tasks EXCEPT ![id].status = status,
                       ![id].updatedAt = now,
                       ![id].progress =
                           IF progress # NoProgress THEN progress ELSE @]
    ELSE tasks

updateTaskProgress_Upsert(tasks, id, progress) ==
    [k \in DOMAIN tasks \cup {id} |->
        IF k = id
        THEN [status |-> IF id \in DOMAIN tasks THEN tasks[id].status
                         ELSE "processing",
              progress |-> Min(100, Max(0, progress)),
              result |-> IF id \in DOMAIN tasks THEN tasks[id].result
                         ELSE NoResult,
              parameters |-> IF id \in DOMAIN tasks THEN tasks[id].parameters
                             ELSE [durHalves |-> 0, fps |-> 0, audio |-> 0],
              createdAt |-> IF id \in DOMAIN tasks THEN tasks[id].createdAt
                            ELSE now,
              updatedAt |-> now]
        ELSE tasks[k]]

updateTaskProgress_Reopen(tasks, id, progress) ==
    IF id \in DOMAIN tasks
    THEN [tasks EXCEPT ![id].progress = Min(100, Max(0, progress)),
                       ![id].status = "processing",
                       ![id].updatedAt = now]
    ELSE tasks

updateTaskProgress_Shared(tasks, id, progress) ==
    IF id \in DOMAIN tasks
    THEN [k \in DOMAIN tasks |->
             [tasks[k] EXCEPT !.progress = Min(100, Max(0, progress)),
                              !.updatedAt = now]]
    ELSE tasks

updateTaskProgress(tasks, id, progress) ==
    IF id \in DOMAIN tasks
    THEN [tasks EXCEPT ![id].progress = Min(100, Max(0, progress)),
                       ![id].updatedAt = now]
    ELSE tasks

setTaskResult_InvertedStatus(tasks, id, result) ==
    IF id \in DOMAIN tasks
    THEN [tasks EXCEPT ![id].result = result,
                       ![id].status =
                           IF result.success THEN "failed" ELSE "completed",
                       ![id].progress = 100,
                       ![id].updatedAt = now]
    ELSE tasks

setTaskResult_StatusKept(tasks, id, result) ==
    IF id \in DOMAIN tasks
    THEN [tasks EXCEPT ![id].result = result, ![id].progress = 100,
                       ![id].updatedAt = now]
    ELSE tasks

setTaskResult_KeepProgress(tasks, id, result) ==
    IF id \in DOMAIN tasks
    THEN [tasks EXCEPT ![id].result = result,
                       ![id].status =
                           IF result.success THEN "completed" ELSE "failed",
                       ![id].updatedAt = now]
    ELSE tasks

setTaskResult(tasks, id, result) ==
    IF id \in DOMAIN tasks
    THEN [tasks EXCEPT ![id].result = result,
                       ![id].status =
                           IF result.success THEN "completed" ELSE "failed",
                       ![id].progress = 100,
                       ![id].updatedAt = now]
    ELSE tasks

\* cleanupOldTasks: the entries whose updatedAt is before the cutoff (old)
\* are deleted.
cleanupOldTasks(tasks, old) ==
    [k \in DOMAIN tasks \ old |-> tasks[k]]

(* ------------------------------- state --------------------------------- *)

VARIABLES
    tasks,          \* RenderTaskManager.tasks: id -> task record
    response,       \* what POST returned to the submitting call, per id
    parameters,     \* performRender's parameters, per worker
    pc,             \* where each worker stands in performRender
    validatedAudioTracks, \* number of validated tracks the worker holds
    browser,        \* "none" | "open" | "closed" | "close_failed"
    page,           \* "none" | "open" | "closed"
    batchStart,     \* outer loop variable
    frame,          \* inner loop variable
    waitUntilString,\* TRUE iff the current frame's result has a predicate
    timedOut,       \* TRUE from a readiness timeout until the frame's capture
    framePaths,     \* frame indices pushed to framePaths, in order
    frameFiles,     \* frame indices whose image is on the scratch area
    framesDir,      \* TRUE iff the frames directory exists
    renderLog,      \* frame indices the render function was invoked with
    encoder,        \* encoder process: "idle" | "running" | "ended" | "errored"
    isResolved,     \* the encoder promise's isResolved flag
    encoderElapsed, \* ms passed since the encoder's deadline timer was set
    outputFile,     \* what outputPath holds: "none" | "video" | "muxed"
    mixedFile,      \* TRUE iff finalOutputPath holds the muxed video
    fault,          \* the error thrown inside performRender's try, or "none"
    everTimedOut,   \* TRUE iff some readiness wait of the job timed out
    audioTracks,    \* validateAudioTracks: its input, one kind per track
    trackState,     \* validateAudioTracks: where each track's validation is
    batchI,         \* validateAudioTracks: the batch loop's i
    audioResult,    \* validateAudioTracks: its result record
    audioDir,       \* track indices whose download is in temp/audio
    mixInput,       \* audio mixing: the job and its validated tracks
    filtered,       \* audio mixing: length of each [a<i>] built so far
    audioFilters,   \* audio mixing: the filter chain of each [a<i>] built so far
    mixedAudio,     \* audio mixing: length of [mixedaudio]
    finalAudio,     \* audio mixing: length of the output's audio stream
    lastCall,       \* registry: the latest call made from outside a worker
    polled,         \* the latest response of GET /api/render/<taskId>
    request,        \* the body of the latest POST, per id it would be given
    framesStamp,    \* the Date.now() in each worker's framesDir name
    outputStamp,    \* the Date.now() in each worker's outputPath name
    images,         \* image elements of the page: id -> state
    waited,         \* the images the image wait attached itself to
    imagePc,        \* where the frame stands between inject and capture
    waitRejected,   \* TRUE iff the image wait's page.evaluate rejected
    fftCache,       \* temp/fft_cache: key -> file, or no file
    fftNow,         \* Date.now() of the audio-fft route, in ms
    fftLast,        \* the latest response of the audio-fft route
    fftFirst,       \* per request, when its latest analysed response was given
    fftPending,     \* the requests whose analysis is running
    dlServer,       \* HTTP download: what the server answers for each URL
    dlUrl,          \* HTTP download: the URL of the request in flight
    dlState,        \* HTTP download: where the outermost promise stands
    dlFile,         \* HTTP download: what localPath holds
    dlArmed,        \* HTTP download: an earlier hop's idle timer is running
    dlHop,          \* HTTP download: the redirects followed so far, modulo 2
    ctxJob,         \* frame context: the job's parameters and its args
    context,        \* frame context: the context built for the latest frame
    validatedOrder, \* result.validatedTracks: array index -> the track held
    audioInputs,    \* the tracks given to the mixer, in the order of input
    outOfOrder,     \* TRUE iff a track was validated before an earlier one
    cleanupI,       \* cleanupAudioFiles: the tracks gone through so far
    unlinked        \* the tracks whose file cleanupAudioFiles has unlinked

\* Variables of validateAudioTracks.
audioVars == <<audioTracks, trackState, batchI, audioResult, audioDir>>

\* Variables of the audio filter graph.
mixVars == <<mixInput, filtered, audioFilters, mixedAudio, finalAudio>>

\* Variables of the scratch path names.
clockVars == <<now, framesStamp, outputStamp>>

\* Variables of the automatic image wait.
imageVars == <<images, waited, imagePc, waitRejected>>

\* Variables of the audio-fft route.
fftVars == <<fftCache, fftNow, fftLast, fftFirst, fftPending>>

\* Variables of the handlers and the page that the worker's steps do not
\* read or write.
\* Variables of downloadAudioFileGeneric.
dlVars == <<dlServer, dlUrl, dlState, dlFile, dlArmed, dlHop>>

\* Variables of the helpers that are followed on their own.
\* Variables of the frame context.
ctxVars == <<ctxJob, context>>

\* Variables of the order of the tracks and of cleanupAudioFiles.
orderVars == <<validatedOrder, audioInputs, outOfOrder, cleanupI, unlinked>>

moreVars == <<dlVars, ctxVars, orderVars>>

\* The side variables but those of the tracks.
sideRest == <<polled, request, clockVars, imageVars, fftVars, dlVars, ctxVars>>

sideVars == <<polled, request, clockVars, imageVars, fftVars, moreVars>>

\* Variables of the parts that are followed step by step under their own
\* specifications; the steps of performRender leave them alone.
auxVars == <<audioVars, mixVars, lastCall, sideVars>>

vars ==
    <<tasks, response, parameters, pc, validatedAudioTracks, browser, page,
      batchStart, frame, waitUntilString, timedOut, framePaths, frameFiles,
      framesDir, renderLog, encoder, isResolved, encoderElapsed, outputFile,
      mixedFile, fault, everTimedOut, auxVars>>

\* Variables of performRender and of the handlers around it.
workerVars ==
    <<tasks, response, parameters, pc, validatedAudioTracks, browser, page,
      batchStart, frame, waitUntilString, timedOut, framePaths, frameFiles,
      framesDir, renderLog, encoder, isResolved, encoderElapsed, outputFile,
      mixedFile, fault, everTimedOut>>

\* Variables of the registry and the submit handler.
frontVars == <<response, parameters>>

\* Variables of the frame loop.
loopVars == <<batchStart, frame, waitUntilString, timedOut, everTimedOut>>

\* Variables of the scratch area.
fileVars == <<framePaths, frameFiles, framesDir, outputFile, mixedFile>>

\* Variables of the encoder promise.
encVars == <<encoder, isResolved, encoderElapsed>>

\* validateAudioTracks' result as it is first built: success, no tracks, no errors.
NoAudioResult == [success |-> TRUE, validatedTracks |-> {}, errors |-> <<>>]

\* No length yet / no end given (a valid end is greater than start >= 0).
NoAudio == -1
NoEnd == 0
NoMixInput == [p |-> [durHalves |-> 0, fps |-> NoFps, audio |-> 0], tracks |-> <<>>]
NoBefore == [status |-> "", progress |-> 0]
NoCall == [op |-> "none", id |-> "", result |-> NoResult, before |-> NoBefore]

\* No poll made, no POST made, no path named yet.
NoPoll == [code |-> 0, status |-> "", progress |-> 0, hasResult |-> FALSE,
           hasError |-> FALSE]
NoRequest == [width |-> 0]
NoStamp == -1
\* Requests to the audio-fft route that pass its parameter checks; duration
\* in hundredths of a second.
FftRequests ==
    [url : {"/a.mp3"}, time : {0}, bars : {32}, smoothness : {0},
     frames : {1}, duration : {5, 50}]
    \cup [url : {"/b.mp3"}, time : {0}, bars : {32}, smoothness : {0},
          frames : {1}, duration : {5}]

NoFftResponse == [code |-> 0, key |-> <<>>, cached |-> FALSE, spectrum |-> <<>>]

NoParameters == [durHalves |-> 0, fps |-> NoFps, audio |-> 0]

NoResponse == [code |-> 0, success |-> FALSE, taskId |-> ""]

NoCtxJob ==
    [durHalves |-> 0, fps |-> NoFps, width |-> 0, height |-> 0,
     args |-> [k \in {} |-> 0]]

\* Requests that pass POST's validation: duration > 0, fps omitted or in
\* 1..60, an audio array whose tracks are well formed.
ValidParameters ==
    [durHalves : 1..MaxDurHalves, fps : {NoFps} \cup (1..MaxFps),
     audio : 0..MaxTracks]
    \cup [durHalves : {LongDurHalves}, fps : {1}, audio : {0}]

Init ==
    /\ tasks = [k \in {} |-> 0]
    /\ response = [t \in AllIds |-> NoResponse]
    /\ parameters = [t \in AllIds |-> NoParameters]
    /\ pc = [t \in AllIds |-> "idle"]
    /\ validatedAudioTracks = [t \in AllIds |-> 0]
    /\ browser = [t \in AllIds |-> "none"]
    /\ page = [t \in AllIds |-> "none"]
    /\ batchStart = [t \in AllIds |-> 0]
    /\ frame = [t \in AllIds |-> 0]
    /\ waitUntilString = [t \in AllIds |-> FALSE]
    /\ timedOut = [t \in AllIds |-> FALSE]
    /\ framePaths = [t \in AllIds |-> <<>>]
    /\ frameFiles = [t \in AllIds |-> {}]
    /\ framesDir = [t \in AllIds |-> FALSE]
    /\ renderLog = [t \in AllIds |-> <<>>]
    /\ encoder = [t \in AllIds |-> "idle"]
    /\ isResolved = [t \in AllIds |-> FALSE]
    /\ encoderElapsed = [t \in AllIds |-> 0]
    /\ outputFile = [t \in AllIds |-> "none"]
    /\ mixedFile = [t \in AllIds |-> FALSE]
    /\ fault = [t \in AllIds |-> "none"]
    /\ everTimedOut = [t \in AllIds |-> FALSE]
    /\ audioTracks = <<>>
    /\ trackState = <<>>
    /\ batchI = 0
    /\ audioResult = NoAudioResult
    /\ audioDir = {}
    /\ mixInput = NoMixInput
    /\ filtered = <<>>
    /\ audioFilters = <<>>
    /\ mixedAudio = NoAudio
    /\ finalAudio = NoAudio
    /\ lastCall = NoCall
    /\ polled = NoPoll
    /\ request = [t \in AllIds |-> NoRequest]
    /\ now = 0
    /\ framesStamp = [t \in AllIds |-> NoStamp]
    /\ outputStamp = [t \in AllIds |-> NoStamp]
    /\ images = <<>>
    /\ waited = {}
    /\ imagePc = "inject"
    /\ waitRejected = FALSE
    /\ fftCache = <<>>
    /\ fftNow = 0
    /\ fftLast = NoFftResponse
    /\ fftFirst = [req \in FftRequests |-> NoStamp]
    /\ fftPending = {}
    /\ dlServer = [u \in {} |-> 0]
    /\ dlUrl = "none"
    /\ dlState = "idle"
    /\ dlFile = "none"
    /\ dlArmed = FALSE
    /\ dlHop = 0
    /\ ctxJob = NoCtxJob
    /\ context = [k \in {} |-> 0]
    /\ validatedOrder = <<>>
    /\ audioInputs = <<>>
    /\ outOfOrder = FALSE
    /\ cleanupI = 0
    /\ unlinked = {}

(* ---------------------------- performRender ---------------------------- *)

\* const fps = requestedFps || 24
Fps(p) == IF p.fps = NoFps THEN DefaultFps ELSE p.fps

TotalFrames_Floor(p) == (p.durHalves * Fps(p)) \div 2

\* const totalFrames = Math.ceil(duration * fps)
TotalFrames(p) == (p.durHalves * Fps(p) + 1) \div 2

\* const baseProgress = validatedAudioTracks.length > 0 ? 10 : 0
BaseProgress(t) == IF validatedAudioTracks[t] > 0 THEN AudioBase ELSE 0

BatchEnd_Overlap(start, total) == Min(start + batchSize + 1, total)

\* const batchEnd = Math.min(batchStart + batchSize, totalFrames)
BatchEnd(start, total) == Min(start + batchSize, total)

\* error.message of each failure thrown inside performRender's try block
ErrorMessage(f) ==
    CASE f = "audio" -> "Audio validation failed: ..."
      [] f = "mkdir" -> "mkdir failed"
      [] f = "launch" -> "browser launch failed"
      [] f = "page" -> "page operation failed"
      [] f = "render" -> "Failed to evaluate render function: ..."
      [] f = "capture" -> "screenshot failed"
      [] f = "encoder_error" -> "ffmpeg exited with an error"
      [] f = "encoder_timeout" -> "FFmpeg timeout after ...ms"
      [] f = "mix" -> "audio mixing failed"
      [] f = "replace" -> "unlink or rename failed"
      [] f = "stat" -> "stat failed"
      [] OTHER -> "Unknown error"

Faults ==
    {"audio", "mkdir", "launch", "page", "render", "capture", "encoder_error",
     "encoder_timeout", "mix", "replace", "stat"}

\* A throw inside the outer try: control goes to the catch block.
Throw(t, f) ==
    /\ fault' = [fault EXCEPT ![t] = f]
    /\ pc' = [pc EXCEPT ![t] = "catch"]

\* A throw inside the inner try (the surface is open): control goes to the
\* finally block first.
ThrowInner(t, f) ==
    /\ fault' = [fault EXCEPT ![t] = f]
    /\ pc' = [pc EXCEPT ![t] = "finally"]

\* POST with a request that passes validation: createTask, then the
\* synchronous head of the detached performRender (up to its first await),
\* then the response.
SubmitWith(t, requests) ==
    /\ pc[t] = "idle"
    /\ \E p \in requests :
        /\ parameters' = [parameters EXCEPT ![t] = p]
        /\ LET created == createTask(tasks, t, p)
               started == updateTaskStatus(created, t, "processing", 0)
           IN  IF p.audio > 0
               THEN /\ tasks' = updateTaskProgress(started, t, 5)
                    /\ pc' = [pc EXCEPT ![t] = "validate"]
               ELSE /\ tasks' = started
                    /\ pc' = [pc EXCEPT ![t] = "mkdir"]
    /\ response' =
           [response EXCEPT ![t] = [code |-> 200, success |-> TRUE, taskId |-> t]]
    /\ UNCHANGED <<validatedAudioTracks, browser, page, loopVars, fileVars,
                   renderLog, encVars, fault, auxVars>>

\* POST with any request that passes validation.
Submit(t) == SubmitWith(t, ValidParameters)

\* await validateAudioTracks(audio) with success = true
AudioValidateOk(t) ==
    /\ pc[t] = "validate"
    /\ validatedAudioTracks' =
           [validatedAudioTracks EXCEPT ![t] = parameters[t].audio]
    /\ tasks' = updateTaskProgress(tasks, t, AudioBase)
    /\ pc' = [pc EXCEPT ![t] = "mkdir"]
    /\ UNCHANGED <<frontVars, auxVars, browser, page, loopVars, fileVars, renderLog, encVars,
                   fault>>

AudioValidateFail_NoThrow(t) ==
    /\ pc[t] = "validate"
    /\ fault' = [fault EXCEPT ![t] = "audio"]
    /\ pc' = [pc EXCEPT ![t] = "mkdir"]
    /\ UNCHANGED <<tasks, frontVars, auxVars, validatedAudioTracks, browser, page, loopVars,
                   fileVars, renderLog, encVars>>

\* await validateAudioTracks(audio) with success = false: throw
AudioValidateFail(t) ==
    /\ pc[t] = "validate"
    /\ Throw(t, "audio")
    /\ UNCHANGED <<tasks, frontVars, auxVars, validatedAudioTracks, browser, page, loopVars,
                   fileVars, renderLog, encVars>>

\* await mkdir(tempDir); await mkdir(framesDir)
MkdirOk(t) ==
    /\ pc[t] = "mkdir"
    /\ framesDir' = [framesDir EXCEPT ![t] = TRUE]
    /\ pc' = [pc EXCEPT ![t] = "launch"]
    /\ UNCHANGED <<tasks, frontVars, auxVars, validatedAudioTracks, browser, page, loopVars,
                   framePaths, frameFiles, outputFile, mixedFile, renderLog,
                   encVars, fault>>

MkdirFail(t) ==
    /\ pc[t] = "mkdir"
    /\ Throw(t, "mkdir")
    /\ UNCHANGED <<tasks, frontVars, auxVars, validatedAudioTracks, browser, page, loopVars,
                   fileVars, renderLog, encVars>>

\* await chromium.launch(...)
LaunchOk(t) ==
    /\ pc[t] = "launch"
    /\ browser' = [browser EXCEPT ![t] = "open"]
    /\ pc' = [pc EXCEPT ![t] = "page"]
    /\ UNCHANGED <<tasks, frontVars, auxVars, validatedAudioTracks, page, loopVars, fileVars,
                   renderLog, encVars, fault>>

LaunchFail(t) ==
    /\ pc[t] = "launch"
    /\ Throw(t, "launch")
    /\ UNCHANGED <<tasks, frontVars, auxVars, validatedAudioTracks, browser, page, loopVars,
                   fileVars, renderLog, encVars>>

\* browser.newPage(), setViewportSize, setContent; the loops start at 0
PageOk(t) ==
    /\ pc[t] = "page"
    /\ batchStart' = [batchStart EXCEPT ![t] = 0]
    /\ frame' = [frame EXCEPT ![t] = 0]
    /\ pc' = [pc EXCEPT ![t] =
                 IF 0 < TotalFrames(parameters[t]) THEN "render" ELSE "finally"]
    /\ page' = [page EXCEPT ![t] = "open"]
    /\ UNCHANGED <<tasks, frontVars, auxVars, validatedAudioTracks, browser,
                   waitUntilString, timedOut, everTimedOut, fileVars,
                   renderLog, encVars, fault>>

\* newPage rejects (page stays undefined), or a later call on the page does.
PageFail(t) ==
    /\ pc[t] = "page"
    /\ \E opened \in {"none", "open"} : page' = [page EXCEPT ![t] = opened]
    /\ ThrowInner(t, "page")
    /\ UNCHANGED <<tasks, frontVars, auxVars, validatedAudioTracks, browser, loopVars,
                   fileVars, renderLog, encVars>>

\* baseProgress + Math.floor((frame / totalFrames) * 65)
FrameProgress(t) ==
    BaseProgress(t) + (frame[t] * FrameShare) \div TotalFrames(parameters[t])

\* Top of the inner loop body: the progress update, then the render function
\* is invoked on the frame's context and returns (a bare string, or an object
\* with or without waitUntil).
RenderReturn(t) ==
    /\ pc[t] = "render"
    /\ tasks' = updateTaskProgress(tasks, t, FrameProgress(t))
    /\ renderLog' = [renderLog EXCEPT ![t] = Append(@, frame[t])]
    /\ \E o \in RenderOutcomes \ {"throw"} :
          waitUntilString' =
              [waitUntilString EXCEPT ![t] = (o = "objectWaitUntil")]
    /\ pc' = [pc EXCEPT ![t] = "inject"]
    /\ UNCHANGED <<frontVars, auxVars, validatedAudioTracks, browser, page, batchStart, frame,
                   timedOut, everTimedOut, fileVars, encVars, fault>>

RenderThrow_Swallowed(t) ==
    /\ pc[t] = "render"
    /\ tasks' = updateTaskProgress(tasks, t, FrameProgress(t))
    /\ renderLog' = [renderLog EXCEPT ![t] = Append(@, frame[t])]
    /\ fault' = [fault EXCEPT ![t] = "render"]
    /\ waitUntilString' = [waitUntilString EXCEPT ![t] = FALSE]
    /\ pc' = [pc EXCEPT ![t] = "inject"]
    /\ UNCHANGED <<frontVars, auxVars, validatedAudioTracks, browser, page, batchStart, frame,
                   timedOut, everTimedOut, fileVars, encVars>>

\* The render function throws, or its result cannot be read: the inner catch
\* rethrows "Failed to evaluate render function: ...".
RenderThrow(t) ==
    /\ pc[t] = "render"
    /\ tasks' = updateTaskProgress(tasks, t, FrameProgress(t))
    /\ renderLog' = [renderLog EXCEPT ![t] = Append(@, frame[t])]
    /\ ThrowInner(t, "render")
    /\ UNCHANGED <<frontVars, auxVars, validatedAudioTracks, browser, page, loopVars,
                   fileVars, encVars>>

\* The markup is injected, its script run, images and network idle awaited.
InjectOk(t) ==
    /\ pc[t] = "inject"
    /\ pc' = [pc EXCEPT ![t] = IF waitUntilString[t] THEN "ready" ELSE "capture"]
    /\ UNCHANGED <<tasks, frontVars, auxVars, validatedAudioTracks, browser, page, loopVars,
                   fileVars, renderLog, encVars, fault>>

InjectFail(t) ==
    /\ pc[t] = "inject"
    /\ ThrowInner(t, "page")
    /\ UNCHANGED <<tasks, frontVars, auxVars, validatedAudioTracks, browser, page, loopVars,
                   fileVars, renderLog, encVars>>

\* page.waitForFunction resolves: the predicate became true.
ReadyMet(t) ==
    /\ pc[t] = "ready"
    /\ pc' = [pc EXCEPT ![t] = "debug_try"]
    /\ UNCHANGED <<tasks, frontVars, auxVars, validatedAudioTracks, browser, page, loopVars,
                   fileVars, renderLog, encVars, fault>>

ReadyTimeout_Fatal(t) ==
    /\ pc[t] = "ready"
    /\ timedOut' = [timedOut EXCEPT ![t] = TRUE]
    /\ everTimedOut' = [everTimedOut EXCEPT ![t] = TRUE]
    /\ ThrowInner(t, "page")
    /\ UNCHANGED <<tasks, frontVars, auxVars, validatedAudioTracks, browser, page, batchStart,
                   frame, waitUntilString, fileVars, renderLog, encVars>>

\* page.waitForFunction rejects when its timeout elapses (the 25000 ms handed
\* to it, or the page's default of 5000 ms): the catch block logs and goes on.
ReadyTimeout(t) ==
    /\ pc[t] = "ready"
    /\ timedOut' = [timedOut EXCEPT ![t] = TRUE]
    /\ everTimedOut' = [everTimedOut EXCEPT ![t] = TRUE]
    /\ pc' = [pc EXCEPT ![t] = "debug_catch"]
    /\ UNCHANGED <<tasks, frontVars, auxVars, validatedAudioTracks, browser, page, batchStart,
                   frame, waitUntilString, fileVars, renderLog, encVars, fault>>

\* The debug page.evaluate inside the try, after the condition was met.
DebugTryOk(t) ==
    /\ pc[t] = "debug_try"
    /\ pc' = [pc EXCEPT ![t] = "capture"]
    /\ UNCHANGED <<tasks, frontVars, auxVars, validatedAudioTracks, browser, page, loopVars,
                   fileVars, renderLog, encVars, fault>>

\* It throws: the same catch block takes it as a timeout.
DebugTryFail(t) ==
    /\ pc[t] = "debug_try"
    /\ pc' = [pc EXCEPT ![t] = "debug_catch"]
    /\ UNCHANGED <<tasks, frontVars, auxVars, validatedAudioTracks, browser, page, loopVars,
                   fileVars, renderLog, encVars, fault>>

\* The debug page.evaluate inside the catch block.
DebugCatchOk(t) ==
    /\ pc[t] = "debug_catch"
    /\ pc' = [pc EXCEPT ![t] = "capture"]
    /\ UNCHANGED <<tasks, frontVars, auxVars, validatedAudioTracks, browser, page, loopVars,
                   fileVars, renderLog, encVars, fault>>

DebugCatchFail(t) ==
    /\ pc[t] = "debug_catch"
    /\ ThrowInner(t, "page")
    /\ UNCHANGED <<tasks, frontVars, auxVars, validatedAudioTracks, browser, page, loopVars,
                   fileVars, renderLog, encVars>>

\* Where the loops go after frame f of the batch starting at start.
AfterFrame(f, start, total) ==
    IF f + 1 < BatchEnd(start, total) THEN "render"
    ELSE IF BatchEnd(start, total) < total THEN "pause"
    ELSE "finally"

\* page.screenshot writes frame_<index>.png; framePaths.push; frame++
CaptureOk(t) ==
    /\ pc[t] = "capture"
    /\ frameFiles' = [frameFiles EXCEPT ![t] = @ \cup {frame[t]}]
    /\ framePaths' = [framePaths EXCEPT ![t] = Append(@, frame[t])]
    /\ frame' = [frame EXCEPT ![t] = @ + 1]
    /\ timedOut' = [timedOut EXCEPT ![t] = FALSE]
    /\ pc' = [pc EXCEPT ![t] =
                 AfterFrame(frame[t], batchStart[t], TotalFrames(parameters[t]))]
    /\ UNCHANGED <<tasks, frontVars, auxVars, validatedAudioTracks, browser, page, batchStart,
                   waitUntilString, everTimedOut, framesDir,
                   outputFile, mixedFile, renderLog, encVars, fault>>

CaptureFail(t) ==
    /\ pc[t] = "capture"
    /\ ThrowInner(t, "capture")
    /\ UNCHANGED <<tasks, frontVars, auxVars, validatedAudioTracks, browser, page, loopVars,
                   fileVars, renderLog, encVars>>

\* The pause between two batches; batchStart += batchSize; frame = batchStart
BatchPause(t) ==
    /\ pc[t] = "pause"
    /\ batchStart' = [batchStart EXCEPT ![t] = @ + batchSize]
    /\ frame' = [frame EXCEPT ![t] = batchStart[t] + batchSize]
    /\ pc' = [pc EXCEPT ![t] = "render"]
    /\ UNCHANGED <<tasks, frontVars, auxVars, validatedAudioTracks, browser, page,
                   waitUntilString, timedOut, everTimedOut, fileVars,
                   renderLog, encVars, fault>>

timeoutMs_NoScaling(p) == Max(30000, p.durHalves)

\* const timeoutMs = Math.max(30000, duration * 10000)
timeoutMs(p) == Max(30000, p.durHalves * 5000)

\* The code after the finally block.  After a throw the outer catch is next;
\* otherwise the progress update, the deadline timer and the encoder start.
LeaveFinally(t) ==
    IF fault[t] # "none"
    THEN /\ pc' = [pc EXCEPT ![t] = "catch"]
         /\ UNCHANGED <<tasks, encVars>>
    ELSE /\ tasks' = updateTaskProgress(tasks, t, BaseProgress(t) + FrameShare)
         /\ encoder' = [encoder EXCEPT ![t] = "running"]
         /\ isResolved' = [isResolved EXCEPT ![t] = FALSE]
         /\ encoderElapsed' = [encoderElapsed EXCEPT ![t] = 0]
         /\ pc' = [pc EXCEPT ![t] = "encoding"]

\* finally: if (page) await page.close()
ClosePageOk(t) ==
    /\ pc[t] = "finally"
    /\ page' = [page EXCEPT ![t] = IF @ = "none" THEN "none" ELSE "closed"]
    /\ pc' = [pc EXCEPT ![t] = "close_contexts"]
    /\ UNCHANGED <<tasks, frontVars, auxVars, validatedAudioTracks, browser,
                   loopVars, fileVars, renderLog, encVars, fault>>

\* page.close() rejects: caught and logged, the second try block is next.
ClosePageFail(t) ==
    /\ pc[t] = "finally"
    /\ page[t] = "open"
    /\ pc' = [pc EXCEPT ![t] = "close_contexts"]
    /\ UNCHANGED <<tasks, frontVars, auxVars, validatedAudioTracks, browser,
                   page, loopVars, fileVars, renderLog, encVars, fault>>

\* for (const context of browser.contexts()) await context.close()
CloseContextsOk(t) ==
    /\ pc[t] = "close_contexts"
    /\ pc' = [pc EXCEPT ![t] = "close_browser"]
    /\ UNCHANGED <<tasks, frontVars, auxVars, validatedAudioTracks, browser,
                   page, loopVars, fileVars, renderLog, encVars, fault>>

\* A context.close() rejects: the catch of the same try block takes it, so
\* browser.close() is skipped and the finally block is left.
CloseContextsFail(t) ==
    /\ pc[t] = "close_contexts"
    /\ LeaveFinally(t)
    /\ UNCHANGED <<frontVars, auxVars, validatedAudioTracks, browser, page,
                   loopVars, fileVars, renderLog, fault>>

\* await browser.close(), the 100 ms delay, then the finally block is left.
CloseBrowserOk(t) ==
    /\ pc[t] = "close_browser"
    /\ browser' = [browser EXCEPT ![t] = "closed"]
    /\ LeaveFinally(t)
    /\ UNCHANGED <<frontVars, auxVars, validatedAudioTracks, page, loopVars,
                   fileVars, renderLog, fault>>

\* browser.close() itself rejects: caught and logged.
CloseBrowserFail(t) ==
    /\ pc[t] = "close_browser"
    /\ browser' = [browser EXCEPT ![t] = "close_failed"]
    /\ LeaveFinally(t)
    /\ UNCHANGED <<frontVars, auxVars, validatedAudioTracks, page, loopVars,
                   fileVars, renderLog, fault>>

(* ------------------------------- encoder ------------------------------- *)

\* Math.floor(baseProgress + 65 + (progress.percent / 100) * 20)
EncodingProgress(t, percent) ==
    BaseProgress(t) + FrameShare + (percent * EncodeShare) \div 100

\* Math.floor(baseProgress + 85 + (progress.percent / 100) * 5)
MixingProgress(t, percent) ==
    BaseProgress(t) + FrameShare + EncodeShare + (percent * MixShare) \div 100

\* The encoder's "progress" event.  The handler is attached to the process,
\* not to the promise: it runs for as long as the process reports, also after
\* the deadline has rejected the promise.
EncoderProgress(t) ==
    /\ encoder[t] = "running"
    /\ \E percent \in Percents :
          tasks' = IF percent # 0
                   THEN updateTaskProgress(tasks, t, EncodingProgress(t, percent))
                   ELSE tasks
    /\ UNCHANGED <<frontVars, auxVars, pc, validatedAudioTracks, browser, page, loopVars,
                   fileVars, renderLog, encVars, fault>>

\* The encoder's "end" event.  If the promise is still pending it resolves:
\* the worker sets the progress to base + 85 and starts the mixer when there
\* are validated tracks.
EncoderEnd(t) ==
    /\ encoder[t] = "running"
    /\ encoder' = [encoder EXCEPT ![t] = "ended"]
    /\ outputFile' = [outputFile EXCEPT ![t] = "video"]
    /\ IF ~isResolved[t]
       THEN /\ isResolved' = [isResolved EXCEPT ![t] = TRUE]
            /\ encoderElapsed' = [encoderElapsed EXCEPT ![t] = 0]
            /\ tasks' = updateTaskProgress(tasks, t,
                            BaseProgress(t) + FrameShare + EncodeShare)
            /\ pc' = [pc EXCEPT ![t] =
                         IF validatedAudioTracks[t] > 0 THEN "mixing"
                         ELSE "cleanup"]
       ELSE UNCHANGED <<isResolved, encoderElapsed, tasks, pc>>
    /\ UNCHANGED <<frontVars, auxVars, validatedAudioTracks, browser, page, loopVars,
                   framePaths, frameFiles, framesDir, mixedFile, renderLog,
                   fault>>

\* The encoder's "error" event: reject(err) if the promise is still pending.
EncoderError(t) ==
    /\ encoder[t] = "running"
    /\ encoder' = [encoder EXCEPT ![t] = "errored"]
    /\ IF ~isResolved[t]
       THEN /\ isResolved' = [isResolved EXCEPT ![t] = TRUE]
            /\ encoderElapsed' = [encoderElapsed EXCEPT ![t] = 0]
            /\ Throw(t, "encoder_error")
       ELSE UNCHANGED <<isResolved, encoderElapsed, pc, fault>>
    /\ UNCHANGED <<tasks, frontVars, auxVars, validatedAudioTracks, browser, page, loopVars,
                   fileVars, renderLog>>

\* Time passes while the encoder promise is pending: 30 s at a time, up to
\* the deadline, at which the timer callback is due.
EncoderTick(t) ==
    /\ pc[t] = "encoding"
    /\ ~isResolved[t]
    /\ encoderElapsed[t] < timeoutMs(parameters[t])
    /\ encoderElapsed' = [encoderElapsed EXCEPT ![t] =
                             Min(@ + 30000, timeoutMs(parameters[t]))]
    /\ UNCHANGED <<tasks, frontVars, auxVars, pc, validatedAudioTracks,
                   browser, page, loopVars, fileVars, renderLog, encoder,
                   isResolved, fault>>

\* The timer callback after timeoutMs, the promise still pending: reject with
\* `FFmpeg timeout after ${timeoutMs}ms`.  The process is left running.
EncoderTimeout(t) ==
    /\ pc[t] = "encoding"
    /\ encoder[t] = "running"
    /\ ~isResolved[t]
    /\ encoderElapsed[t] >= timeoutMs(parameters[t])
    /\ isResolved' = [isResolved EXCEPT ![t] = TRUE]
    /\ Throw(t, "encoder_timeout")
    /\ UNCHANGED <<tasks, frontVars, auxVars, validatedAudioTracks, browser,
                   page, loopVars, fileVars, renderLog, encoder,
                   encoderElapsed>>

(* -------------------------------- mixer -------------------------------- *)

\* The mixer's "progress" event.
MixerProgress(t) ==
    /\ pc[t] = "mixing"
    /\ \E percent \in Percents :
          tasks' = IF percent # 0
                   THEN updateTaskProgress(tasks, t, MixingProgress(t, percent))
                   ELSE tasks
    /\ UNCHANGED <<frontVars, auxVars, pc, validatedAudioTracks, browser, page, loopVars,
                   fileVars, renderLog, encVars, fault>>

\* The mixer's "end" event: finalOutputPath holds the muxed video.
MixerEnd(t) ==
    /\ pc[t] = "mixing"
    /\ mixedFile' = [mixedFile EXCEPT ![t] = TRUE]
    /\ pc' = [pc EXCEPT ![t] = "unlink"]
    /\ UNCHANGED <<tasks, frontVars, auxVars, validatedAudioTracks, browser, page, loopVars,
                   framePaths, frameFiles, framesDir, outputFile, renderLog,
                   encVars, fault>>

\* The mixer's "error" event.
MixerError(t) ==
    /\ pc[t] = "mixing"
    /\ Throw(t, "mix")
    /\ UNCHANGED <<tasks, frontVars, auxVars, validatedAudioTracks, browser, page, loopVars,
                   fileVars, renderLog, encVars>>

\* await unlink(outputPath)
UnlinkOk(t) ==
    /\ pc[t] = "unlink"
    /\ outputFile' = [outputFile EXCEPT ![t] = "none"]
    /\ pc' = [pc EXCEPT ![t] = "rename"]
    /\ UNCHANGED <<tasks, frontVars, auxVars, validatedAudioTracks, browser, page, loopVars,
                   framePaths, frameFiles, framesDir, mixedFile, renderLog,
                   encVars, fault>>

UnlinkFail(t) ==
    /\ pc[t] = "unlink"
    /\ Throw(t, "replace")
    /\ UNCHANGED <<tasks, frontVars, auxVars, validatedAudioTracks, browser, page, loopVars,
                   fileVars, renderLog, encVars>>

\* await fs.promises.rename(finalOutputPath, outputPath)
RenameOk(t) ==
    /\ pc[t] = "rename"
    /\ outputFile' = [outputFile EXCEPT ![t] = "muxed"]
    /\ mixedFile' = [mixedFile EXCEPT ![t] = FALSE]
    /\ pc' = [pc EXCEPT ![t] = "cleanup"]
    /\ UNCHANGED <<tasks, frontVars, auxVars, validatedAudioTracks, browser, page, loopVars,
                   framePaths, frameFiles, framesDir, renderLog, encVars, fault>>

RenameFail(t) ==
    /\ pc[t] = "rename"
    /\ Throw(t, "replace")
    /\ UNCHANGED <<tasks, frontVars, auxVars, validatedAudioTracks, browser, page, loopVars,
                   fileVars, renderLog, encVars>>

(* ------------------------- cleanup and results ------------------------- *)

\* unlink of every path in framePaths, then rmdir(framesDir)
CleanupFrames(t) ==
    /\ pc[t] = "cleanup"
    /\ frameFiles' = [frameFiles EXCEPT ![t] = {}]
    /\ framesDir' = [framesDir EXCEPT ![t] = FALSE]
    /\ pc' = [pc EXCEPT ![t] = "stat"]
    /\ UNCHANGED <<tasks, frontVars, auxVars, validatedAudioTracks, browser, page, loopVars,
                   framePaths, outputFile, mixedFile, renderLog, encVars, fault>>

\* The success payload: { success: true, video: { frames: totalFrames, ... } }
SuccessResult(p) ==
    [present |-> TRUE, success |-> TRUE, hasVideo |-> TRUE,
     frames |-> TotalFrames(p), fps |-> Fps(p), durHalves |-> p.durHalves,
     error |-> "", details |-> ""]

ErrorResult_NoDetails(f) ==
    [present |-> TRUE, success |-> FALSE, hasVideo |-> FALSE, frames |-> 0,
     fps |-> 0, durHalves |-> 0, error |-> "Failed to render video",
     details |-> "Unknown error"]

\* The error payload: { success: false, error, details: error.message }
ErrorResult(f) ==
    [present |-> TRUE, success |-> FALSE, hasVideo |-> FALSE, frames |-> 0,
     fps |-> 0, durHalves |-> 0, error |-> "Failed to render video",
     details |-> ErrorMessage(f)]

\* await fs.promises.stat(outputPath), the audio cleanup, setTaskResult(result)
StatOk(t) ==
    /\ pc[t] = "stat"
    /\ tasks' = setTaskResult(tasks, t, SuccessResult(parameters[t]))
    /\ pc' = [pc EXCEPT ![t] = "done"]
    /\ UNCHANGED <<frontVars, auxVars, validatedAudioTracks, browser, page, loopVars,
                   fileVars, renderLog, encVars, fault>>

StatFail(t) ==
    /\ pc[t] = "stat"
    /\ Throw(t, "stat")
    /\ UNCHANGED <<tasks, frontVars, auxVars, validatedAudioTracks, browser, page, loopVars,
                   fileVars, renderLog, encVars>>

\* The catch block of performRender: the audio cleanup, then
\* setTaskResult(errorResult).  Nothing in it can throw, so the fallback
\* .catch of POST never runs.
Catch(t) ==
    /\ pc[t] = "catch"
    /\ tasks' = setTaskResult(tasks, t, ErrorResult(fault[t]))
    /\ pc' = [pc EXCEPT ![t] = "done"]
    /\ UNCHANGED <<frontVars, auxVars, validatedAudioTracks, browser, page, loopVars,
                   fileVars, renderLog, encVars, fault>>

(* ------------------------- validateAudioTracks -------------------------- *)

\* const maxConcurrency = 3
maxConcurrency == 3

\* What a track's url is: an existing local file, an http(s) URL, or one
\* that validateAudioTrack rejects before any await (a local path that does
\* not exist, a malformed URL, another protocol).
TrackKinds == {"local", "remote", "invalid"}

\* Jobs with audio: the track list decides here, the video is the shortest.
AudioParameters ==
    [durHalves : {1}, fps : {1}, audio : 1..MaxAudioTracks]

\* POST as in Submit, for a request with audio tracks of the given kinds.
SubmitAudio(t) ==
    /\ pc[t] = "idle"
    /\ \E p \in AudioParameters :
        /\ parameters' = [parameters EXCEPT ![t] = p]
        /\ \E kinds \in [1..p.audio -> TrackKinds] : audioTracks' = kinds
        /\ LET created == createTask(tasks, t, p)
               started == updateTaskStatus(created, t, "processing", 0)
           IN  tasks' = updateTaskProgress(started, t, 5)
    /\ pc' = [pc EXCEPT ![t] = "validate"]
    /\ response' =
           [response EXCEPT ![t] = [code |-> 200, success |-> TRUE, taskId |-> t]]
    /\ UNCHANGED <<mixVars, lastCall, sideVars, validatedAudioTracks, browser, page, loopVars, fileVars,
                   renderLog, encVars, fault, trackState, batchI, audioResult,
                   audioDir>>

Batch_Whole(i, n) == {k \in 1..n : i < k}

\* audioTracks.slice(i, i + maxConcurrency): the positions (from 1) of the
\* tracks of the batch that starts at index i (from 0).
Batch(i, n) == {k \in 1..n : i < k /\ k <= i + maxConcurrency}

\* validateAudioTrack up to its first await: a local file goes to
\* getAudioDuration, a URL to downloadAudioFile, anything else throws.
StartTrack(kind) ==
    CASE kind = "local" -> "probing"
      [] kind = "remote" -> "downloading"
      [] OTHER -> "failed"

\* batch.map(async ...): every track of the batch is started.
StartBatch(states, i) ==
    [k \in DOMAIN states |->
        IF k \in Batch(i, Len(audioTracks)) THEN StartTrack(audioTracks[k])
        ELSE states[k]]

Collect_KeepSuccess(res, states, batch) ==
    [success |-> res.success,
     validatedTracks |->
         res.validatedTracks \cup {k \in batch : states[k] = "valid"},
     errors |->
         res.errors \o SelectSeq([k \in DOMAIN states |-> k],
                                 LAMBDA k : k \in batch /\ states[k] = "failed")]

\* for (const batchResult of batchResults): an error is pushed and success
\* cleared, a track is stored at its index.  An error is its track's index.
Collect(res, states, batch) ==
    [success |-> res.success /\ \A k \in batch : states[k] # "failed",
     validatedTracks |->
         res.validatedTracks \cup {k \in batch : states[k] = "valid"},
     errors |->
         res.errors \o SelectSeq([k \in DOMAIN states |-> k],
                                 LAMBDA k : k \in batch /\ states[k] = "failed")]

PlaceIndex_InBatch(i, batchIndex) == batchIndex

\* const trackIndex = i + batchIndex
PlaceIndex(i, batchIndex) == i + batchIndex

\* result.validatedTracks[batchResult.index] = batchResult.track, for the
\* tracks of the batch that were validated.  Array indices are from 0, the
\* positions of the model from 1; a hole of the array holds 0.
Place(order, i, batch, states) ==
    LET stored == {k \in batch : states[k] = "valid"}
        at(k) == PlaceIndex(i, k - i - 1) + 1
        places == {Len(order)} \cup {at(k) : k \in stored}
        top == CHOOSE n \in places : \A m \in places : m <= n
    IN  [pos \in 1..top |->
            IF \E k \in stored : at(k) = pos
            THEN CHOOSE k \in stored : at(k) = pos
            ELSE IF pos <= Len(order) THEN order[pos] ELSE 0]

\* await mkdir(temp/audio), then the first batch is started.
ValidateStart(t) ==
    /\ pc[t] = "validate"
    /\ batchI' = 0
    /\ trackState' = StartBatch([k \in DOMAIN audioTracks |-> "waiting"], 0)
    /\ audioResult' = NoAudioResult
    /\ pc' = [pc EXCEPT ![t] = "validating"]
    /\ UNCHANGED <<mixVars, lastCall, sideVars, tasks, frontVars, validatedAudioTracks, browser, page,
                   loopVars, fileVars, renderLog, encVars, fault, audioTracks,
                   audioDir>>

\* await mkdir(temp/audio) rejects: validateAudioTracks rejects.
AudioMkdirFail(t) ==
    /\ pc[t] = "validate"
    /\ Throw(t, "mkdir")
    /\ UNCHANGED <<tasks, frontVars, auxVars, validatedAudioTracks, browser,
                   page, loopVars, fileVars, renderLog, encVars>>

\* downloadAudioFile resolves: the file is in temp/audio, the probe starts.
DownloadOk(t, k) ==
    /\ pc[t] = "validating"
    /\ k \in DOMAIN trackState
    /\ trackState[k] = "downloading"
    /\ audioDir' = audioDir \cup {k}
    /\ trackState' = [trackState EXCEPT ![k] = "probing"]
    /\ UNCHANGED <<mixVars, lastCall, sideVars, tasks, frontVars, pc, validatedAudioTracks, browser, page,
                   loopVars, fileVars, renderLog, encVars, fault, audioTracks,
                   batchI, audioResult>>

\* downloadAudioFile rejects (request error, status, write error, timeout):
\* no file is kept.  The catch of validateAudioTrack rethrows.
DownloadFail(t, k) ==
    /\ pc[t] = "validating"
    /\ k \in DOMAIN trackState
    /\ trackState[k] = "downloading"
    /\ trackState' = [trackState EXCEPT ![k] = "failed"]
    /\ UNCHANGED <<mixVars, lastCall, sideVars, tasks, frontVars, pc, validatedAudioTracks, browser, page,
                   loopVars, fileVars, renderLog, encVars, fault, audioTracks,
                   batchI, audioResult, audioDir>>

\* getAudioDuration resolves: result.localPath, duration, isValid are set.
ProbeOk(t, k) ==
    /\ pc[t] = "validating"
    /\ k \in DOMAIN trackState
    /\ trackState[k] = "probing"
    /\ trackState' = [trackState EXCEPT ![k] = "valid"]
    /\ outOfOrder' =
           (outOfOrder
               \/ \E j \in 1..(k - 1) :
                      trackState[j] \in {"downloading", "probing"})
    /\ UNCHANGED <<mixVars, lastCall, sideRest, tasks, frontVars, pc, validatedAudioTracks, browser, page,
                   loopVars, fileVars, renderLog, encVars, fault, audioTracks,
                   batchI, audioResult, audioDir, validatedOrder, audioInputs,
                   cleanupI, unlinked>>

\* getAudioDuration rejects.  In the catch result.localPath is still '', so
\* the unlink of the downloaded file is skipped; the error is rethrown.
ProbeFail(t, k) ==
    /\ pc[t] = "validating"
    /\ k \in DOMAIN trackState
    /\ trackState[k] = "probing"
    /\ trackState' = [trackState EXCEPT ![k] = "failed"]
    /\ UNCHANGED <<mixVars, lastCall, sideVars, tasks, frontVars, pc, validatedAudioTracks, browser, page,
                   loopVars, fileVars, renderLog, encVars, fault, audioTracks,
                   batchI, audioResult, audioDir>>

\* await Promise.all(batchPromises) resumes: the results are collected, then
\* the next batch is started, or the loop ends.
BatchSettled(t) ==
    /\ pc[t] = "validating"
    /\ LET n == Len(audioTracks)
           batch == Batch(batchI, n)
       IN  /\ \A k \in batch : trackState[k] \in {"valid", "failed"}
           /\ audioResult' = Collect(audioResult, trackState, batch)
           /\ validatedOrder' = Place(validatedOrder, batchI, batch, trackState)
           /\ batchI' = batchI + maxConcurrency
           /\ IF batchI + maxConcurrency < n
              THEN /\ trackState' = StartBatch(trackState, batchI + maxConcurrency)
                   /\ pc' = pc
              ELSE /\ trackState' = trackState
                   /\ pc' = [pc EXCEPT ![t] = "validated"]
    /\ UNCHANGED <<mixVars, lastCall, sideRest, tasks, frontVars, validatedAudioTracks, browser, page,
                   loopVars, fileVars, renderLog, encVars, fault, audioTracks,
                   audioDir, audioInputs, outOfOrder, cleanupI, unlinked>>

\* result.success: validateAudioTracks returns, performRender keeps the
\* tracks and reports progress 10.
AudioAccepted(t) ==
    /\ pc[t] = "validated"
    /\ audioResult.success
    /\ validatedAudioTracks' =
           [validatedAudioTracks EXCEPT ![t] =
                Cardinality(audioResult.validatedTracks)]
    /\ tasks' = updateTaskProgress(tasks, t, AudioBase)
    /\ pc' = [pc EXCEPT ![t] = "mkdir"]
    /\ UNCHANGED <<frontVars, auxVars, browser, page, loopVars, fileVars,
                   renderLog, encVars, fault>>

\* !result.success: the downloads of the validated tracks are unlinked,
\* validateAudioTracks returns, performRender throws.
AudioRejected(t) ==
    /\ pc[t] = "validated"
    /\ ~audioResult.success
    /\ audioDir' = audioDir \ {k \in audioResult.validatedTracks :
                                   audioTracks[k] # "local"}
    /\ Throw(t, "audio")
    /\ UNCHANGED <<mixVars, lastCall, sideVars, tasks, frontVars, validatedAudioTracks, browser, page,
                   loopVars, fileVars, renderLog, encVars, audioTracks,
                   trackState, batchI, audioResult>>

\* The steps of validateAudioTracks, one track at a time, from the request
\* to the point where performRender goes on or has recorded the failure.
ValidateNext ==
    \E t \in SpecIds :
        \/ SubmitAudio(t)
        \/ ValidateStart(t)
        \/ AudioMkdirFail(t)
        \/ \E k \in 1..MaxAudioTracks :
              \/ DownloadOk(t, k) \/ DownloadFail(t, k)
              \/ ProbeOk(t, k) \/ ProbeFail(t, k)
        \/ BatchSettled(t)
        \/ AudioAccepted(t)
        \/ AudioRejected(t)
        \/ Catch(t)

ValidateSpec == Init /\ [][ValidateNext]_vars

\* isLocalFile(track.url)
isLocalFile(kind) == kind = "local"

TracksRest ==
    <<mixVars, lastCall, sideRest, frontVars, validatedAudioTracks, browser,
      page, loopVars, fileVars, renderLog, encVars, audioVars>>

\* for (let i = 0; i < validatedAudioTracks.length; i++)
\*     command = command.input(audioTrack.localPath)
MixerInputs(t) ==
    /\ pc[t] = "mkdir"
    /\ validatedAudioTracks[t] > 0
    /\ audioInputs = <<>>
    /\ audioInputs' = [i \in 1..Len(validatedOrder) |-> validatedOrder[i]]
    /\ UNCHANGED <<TracksRest, tasks, pc, fault, validatedOrder, outOfOrder,
                   cleanupI, unlinked>>

\* The stages after the validation are passed: the success path is at its
\* call of cleanupAudioFiles.
StagesPassed(t) ==
    /\ pc[t] = "mkdir"
    /\ audioInputs # <<>>
    /\ pc' = [pc EXCEPT ![t] = "audioCleanup"]
    /\ UNCHANGED <<TracksRest, tasks, fault, orderVars>>

\* A stage after the validation throws: the catch block is at its call of
\* cleanupAudioFiles.
StageThrows(t) ==
    /\ pc[t] = "mkdir"
    /\ validatedAudioTracks[t] > 0
    /\ \E f \in Faults \ {"audio"} : fault' = [fault EXCEPT ![t] = f]
    /\ pc' = [pc EXCEPT ![t] = "audioCleanup"]
    /\ UNCHANGED <<TracksRest, tasks, orderVars>>

\* cleanupAudioFiles, one track: the file of a track that is not a local
\* file is unlinked.
CleanupUnlinkOk(t) ==
    /\ pc[t] = "audioCleanup"
    /\ cleanupI < Len(validatedOrder)
    /\ cleanupI' = cleanupI + 1
    /\ LET k == validatedOrder[cleanupI + 1]
       IN  IF isLocalFile(audioTracks[k])
           THEN UNCHANGED <<audioDir, unlinked>>
           ELSE /\ audioDir' = audioDir \ {k}
                /\ unlinked' = unlinked \cup {k}
    /\ UNCHANGED <<mixVars, lastCall, sideRest, frontVars, validatedAudioTracks,
                   browser, page, loopVars, fileVars, renderLog, encVars,
                   audioTracks, trackState, batchI, audioResult, tasks, pc,
                   fault, validatedOrder, audioInputs, outOfOrder>>

\* cleanupAudioFiles, one track: unlink rejects, the error is logged.
CleanupUnlinkFail(t) ==
    /\ pc[t] = "audioCleanup"
    /\ cleanupI < Len(validatedOrder)
    /\ ~isLocalFile(audioTracks[validatedOrder[cleanupI + 1]])
    /\ cleanupI' = cleanupI + 1
    /\ UNCHANGED <<TracksRest, tasks, pc, fault, validatedOrder, audioInputs,
                   outOfOrder, unlinked>>

\* cleanupAudioFiles has returned: setTaskResult(result) on the success
\* path, setTaskResult(errorResult) in the catch block.
CleanupReturned(t) ==
    /\ pc[t] = "audioCleanup"
    /\ cleanupI = Len(validatedOrder)
    /\ tasks' =
           IF fault[t] = "none"
           THEN setTaskResult(tasks, t, SuccessResult(parameters[t]))
           ELSE setTaskResult(tasks, t, ErrorResult(fault[t]))
    /\ pc' = [pc EXCEPT ![t] = "done"]
    /\ UNCHANGED <<TracksRest, fault, orderVars>>

\* The job's tracks from the request to the task's result: the validation,
\* the inputs of the mixer, the cleanup.
TracksNext ==
    \/ ValidateNext
    \/ \E t \in SpecIds :
          \/ MixerInputs(t)
          \/ StagesPassed(t)
          \/ StageThrows(t)
          \/ CleanupUnlinkOk(t)
          \/ CleanupUnlinkFail(t)
          \/ CleanupReturned(t)

TracksSpec == Init /\ [][TracksNext]_vars

(* ------------------------------ audio mixing ---------------------------- *)

\* A validated track: its probed length, its start and its end (or NoEnd),
\* in half seconds, and its volume in halves of the full volume.  POST
\* accepts 0 <= start < duration, if end is given start < end <= duration,
\* and 0 <= volume <= 1.
FullVolume == 2

MixTracks(p) ==
    [len : {1, MaxDurHalves + 1},
     start : 0..(p.durHalves - 1),
     end : {NoEnd} \cup (1..p.durHalves),
     volume : {FullVolume}]

\* Validated tracks of either volume: the volume has no part in the lengths.
VolumeTracks(p) ==
    [len : {MaxDurHalves + 1},
     start : 0..(p.durHalves - 1),
     end : {NoEnd} \cup (1..p.durHalves),
     volume : {1, FullVolume}]

\* Jobs whose video length is a whole number of half seconds.
MixParameters ==
    [durHalves : 1..MaxDurHalves, fps : {1, 2}, audio : 1..MaxTracks]

\* adelay=<start>: silence is put in front of the stream.
adelay(len, start) == len + start

\* atrim=duration=<d>: the stream is cut after d.
atrim(len, d) == Min(len, d)

\* The filter chain of one track: volume or anull, adelay if start > 0,
\* atrim=duration=(end - start) if end is given.
TrackFilter(tr) ==
    LET delayed == IF tr.start > 0 THEN adelay(tr.len, tr.start) ELSE tr.len
    IN  IF tr.end # NoEnd THEN atrim(delayed, tr.end - tr.start) ELSE delayed

\* Math.round(audioTrack.start * 1000): the milliseconds of a start given
\* in half seconds.
HalfMs == 500

StartMs(start) == start * HalfMs

\* A mutation of audioFilter: the trim is written before the delay.
audioFilter_TrimFirst(i, tr) ==
    <<[op |-> "input", arg |-> i + 1]>>
    \o (IF tr.volume # FullVolume
        THEN <<[op |-> "volume", arg |-> tr.volume]>>
        ELSE <<[op |-> "anull", arg |-> 0]>>)
    \o (IF tr.end # NoEnd
        THEN <<[op |-> "atrim", arg |-> tr.end - tr.start]>>
        ELSE <<>>)
    \o (IF tr.start > 0
        THEN <<[op |-> "adelay", arg |-> StartMs(tr.start)]>>
        ELSE <<>>)
    \o <<[op |-> "label", arg |-> i]>>

\* The filter string of the track at index i (from 0), as the list of its
\* parts: [<i+1>:a], volume=<v> or anull, adelay=<ms>:all=1 if start > 0,
\* atrim=duration=<end - start> if end is given, [a<i>].
audioFilter(i, tr) ==
    <<[op |-> "input", arg |-> i + 1]>>
    \o (IF tr.volume # FullVolume
        THEN <<[op |-> "volume", arg |-> tr.volume]>>
        ELSE <<[op |-> "anull", arg |-> 0]>>)
    \o (IF tr.start > 0
        THEN <<[op |-> "adelay", arg |-> StartMs(tr.start)]>>
        ELSE <<>>)
    \o (IF tr.end # NoEnd
        THEN <<[op |-> "atrim", arg |-> tr.end - tr.start]>>
        ELSE <<>>)
    \o <<[op |-> "label", arg |-> i]>>

\* amix=inputs=n:duration=first: the mix is as long as its first input.
amix(lens) == lens[1]

FinalTrim_None(len, p) == len

\* [mixedaudio]atrim=duration=${duration}[finalaudio]
FinalTrim(len, p) == atrim(len, p.durHalves)

\* The length of the video stream copied from outputPath: totalFrames / fps.
VideoHalves(p) == (2 * TotalFrames(p)) \div Fps(p)

\* -shortest: the output ends with its shortest stream.
Shortest(audioLen, videoLen) == Min(audioLen, videoLen)

\* The mixing of a job is begun: its duration, fps and validated tracks.
MixStart ==
    /\ mixInput = NoMixInput
    /\ \E p \in MixParameters :
          \E trs \in [1..p.audio -> MixTracks(p)] :
              /\ \A i \in 1..p.audio :
                     trs[i].end = NoEnd \/ trs[i].end > trs[i].start
              /\ mixInput' = [p |-> p, tracks |-> trs]
    /\ UNCHANGED <<workerVars, audioVars, lastCall, sideVars, filtered, audioFilters, mixedAudio,
                   finalAudio>>

\* for (let i = 0; i < validatedAudioTracks.length; i++): one track's chain
MixTrackFilter ==
    /\ Len(filtered) < Len(mixInput.tracks)
    /\ filtered' =
           Append(filtered, TrackFilter(mixInput.tracks[Len(filtered) + 1]))
    /\ audioFilters' =
           Append(audioFilters,
                  audioFilter(Len(filtered),
                              mixInput.tracks[Len(filtered) + 1]))
    /\ UNCHANGED <<workerVars, audioVars, lastCall, sideVars, mixInput, mixedAudio,
                   finalAudio>>

\* the amix filter over every [a<i>]
MixAmix ==
    /\ mixInput # NoMixInput
    /\ Len(filtered) = Len(mixInput.tracks)
    /\ mixedAudio = NoAudio
    /\ mixedAudio' = amix(filtered)
    /\ UNCHANGED <<workerVars, audioVars, lastCall, sideVars, mixInput, filtered, audioFilters,
                   finalAudio>>

\* the final atrim, then the muxing with -map 0:v -map [finalaudio] -shortest
MixOutput ==
    /\ mixedAudio # NoAudio
    /\ finalAudio = NoAudio
    /\ finalAudio' = Shortest(FinalTrim(mixedAudio, mixInput.p),
                              VideoHalves(mixInput.p))
    /\ UNCHANGED <<workerVars, audioVars, lastCall, sideVars, mixInput, filtered, audioFilters,
                   mixedAudio>>

MixNext == MixStart \/ MixTrackFilter \/ MixAmix \/ MixOutput

\* The mixing of a job whose tracks have any volume is begun.
FilterStart ==
    /\ mixInput = NoMixInput
    /\ \E p \in MixParameters :
          \E trs \in [1..p.audio -> VolumeTracks(p)] :
              /\ \A i \in 1..p.audio :
                     trs[i].end = NoEnd \/ trs[i].end > trs[i].start
              /\ mixInput' = [p |-> p, tracks |-> trs]
    /\ UNCHANGED <<workerVars, audioVars, lastCall, sideVars, filtered,
                   audioFilters, mixedAudio, finalAudio>>

FilterNext == FilterStart \/ MixTrackFilter \/ MixAmix \/ MixOutput

FilterSpec == Init /\ [][FilterNext]_vars

MixSpec == Init /\ [][MixNext]_vars

(* ----------------------------- specification --------------------------- *)

\* Every step of the worker of task t that is not a progress report.
Advance(t) ==
    \/ AudioValidateOk(t) \/ AudioValidateFail(t)
    \/ MkdirOk(t) \/ MkdirFail(t)
    \/ LaunchOk(t) \/ LaunchFail(t)
    \/ PageOk(t) \/ PageFail(t)
    \/ RenderReturn(t) \/ RenderThrow(t)
    \/ InjectOk(t) \/ InjectFail(t)
    \/ ReadyMet(t) \/ ReadyTimeout(t)
    \/ DebugTryOk(t) \/ DebugTryFail(t)
    \/ DebugCatchOk(t) \/ DebugCatchFail(t)
    \/ CaptureOk(t) \/ CaptureFail(t)
    \/ BatchPause(t)
    \/ ClosePageOk(t) \/ ClosePageFail(t)
    \/ CloseContextsOk(t) \/ CloseContextsFail(t)
    \/ CloseBrowserOk(t) \/ CloseBrowserFail(t)
    \/ EncoderEnd(t) \/ EncoderError(t) \/ EncoderTimeout(t)
    \/ MixerEnd(t) \/ MixerError(t)
    \/ UnlinkOk(t) \/ UnlinkFail(t)
    \/ RenameOk(t) \/ RenameFail(t)
    \/ CleanupFrames(t)
    \/ StatOk(t) \/ StatFail(t)
    \/ Catch(t)

Next ==
    \E t \in SpecIds :
        \/ Submit(t)
        \/ Advance(t)
        \/ EncoderProgress(t)
        \/ EncoderTick(t)
        \/ MixerProgress(t)

Spec == Init /\ [][Next]_vars

\* The event loop runs every continuation that is ready, and every external
\* process settles: no step of a worker that stays possible is put off forever.
LiveSpec == Spec /\ \A t \in SpecIds : WF_vars(Advance(t))

(* ------------------------------- registry ------------------------------- *)

\* Arguments of calls made on the registry from outside a worker.
StatusArgs == {"pending", "processing", "completed", "failed"}
ProgressArgs == {-5, 50, 150}
ResultArgs ==
    {NoResult,
     SuccessResult([durHalves |-> 1, fps |-> 1, audio |-> 0]),
     ErrorResult("render")}

\* What a call finds under its id.
Before(id) ==
    IF id \in DOMAIN tasks
    THEN [status |-> tasks[id].status, progress |-> tasks[id].progress]
    ELSE [status |-> "absent", progress |-> 0]

\* Everything but the registry and the record of the call.
restVars ==
    <<response, parameters, pc, validatedAudioTracks, browser, page,
      batchStart, frame, waitUntilString, timedOut, framePaths, frameFiles,
      framesDir, renderLog, encoder, isResolved, encoderElapsed, outputFile,
      mixedFile, fault, everTimedOut, audioVars, mixVars, sideVars>>

\* renderTaskManager.createTask(parameters); ids are never reused.
CallCreate(id) ==
    /\ id \notin DOMAIN tasks
    /\ tasks' = createTask(tasks, id, [durHalves |-> 1, fps |-> 1, audio |-> 0])
    /\ lastCall' = [NoCall EXCEPT !.op = "createTask", !.id = id]
    /\ UNCHANGED restVars

\* renderTaskManager.updateTaskStatus(id, status, progress?)
CallUpdateStatus(id) ==
    /\ \E st \in StatusArgs, g \in ProgressArgs \cup {NoProgress} :
          tasks' = updateTaskStatus(tasks, id, st, g)
    /\ lastCall' = [NoCall EXCEPT !.op = "updateTaskStatus", !.id = id]
    /\ UNCHANGED restVars

\* renderTaskManager.updateTaskProgress(id, progress)
CallUpdateProgress(id) ==
    /\ \E g \in ProgressArgs : tasks' = updateTaskProgress(tasks, id, g)
    /\ lastCall' = [NoCall EXCEPT !.op = "updateTaskProgress", !.id = id]
    /\ UNCHANGED restVars

\* renderTaskManager.setTaskResult(id, result)
CallSetResult(id) ==
    /\ \E r \in ResultArgs :
          /\ tasks' = setTaskResult(tasks, id, r)
          /\ lastCall' = [op |-> "setTaskResult", id |-> id, result |-> r,
                          before |-> Before(id)]
    /\ UNCHANGED restVars

\* renderTaskManager.cleanupOldTasks(hours), some entries being that old.
CallCleanup ==
    /\ \E old \in SUBSET DOMAIN tasks :
          /\ old # {}
          /\ tasks' = cleanupOldTasks(tasks, old)
    /\ lastCall' = [NoCall EXCEPT !.op = "cleanupOldTasks"]
    /\ UNCHANGED restVars

\* The registry under arbitrary calls.
RegistryNext ==
    \/ \E id \in AllIds :
          \/ CallCreate(id)
          \/ CallUpdateStatus(id)
          \/ CallUpdateProgress(id)
          \/ CallSetResult(id)
    \/ CallCleanup

RegistrySpec == Init /\ [][RegistryNext]_vars

\* Requests with more frames than one batch holds, and with audio.
ShortParameters == [durHalves : {2}, fps : {MaxFps}, audio : {1}]

SubmitShort(t) == SubmitWith(t, ShortParameters)

\* An update call whose id is not in the registry.
UpdateStatusUnknown(id) == id \notin DOMAIN tasks /\ CallUpdateStatus(id)
UpdateProgressUnknown(id) == id \notin DOMAIN tasks /\ CallUpdateProgress(id)
SetResultUnknown(id) == id \notin DOMAIN tasks /\ CallSetResult(id)

\* A worker whose entry may be evicted at any moment, and update calls with
\* an id that was never created.
EvictNext ==
    \/ \E t \in SpecIds :
          \/ SubmitShort(t)
          \/ Advance(t)
          \/ EncoderProgress(t)
          \/ EncoderTick(t)
          \/ MixerProgress(t)
    \/ CallCleanup
    \/ \E id \in AllIds \ SpecIds :
          \/ UpdateStatusUnknown(id)
          \/ UpdateProgressUnknown(id)
          \/ SetResultUnknown(id)

EvictSpec ==
    Init /\ [][EvictNext]_vars /\ \A t \in SpecIds : WF_vars(Advance(t))

(* --------------------------- a collaborator hangs ----------------------- *)

\* A short job with audio.
HangNext ==
    \E t \in SpecIds :
        \/ SubmitShort(t)
        \/ Advance(t)
        \/ EncoderProgress(t)
        \/ EncoderTick(t)
        \/ MixerProgress(t)

\* Every step of the worker that stays possible is taken, but for the events
\* of the mixer: the promise around the mixer has no deadline timer, and the
\* mixer may emit neither "end" nor "error".
HangSpec ==
    /\ Init /\ [][HangNext]_vars
    /\ \A t \in SpecIds : WF_vars(pc[t] # "mixing" /\ Advance(t))

(* ------------------------------ task cleanup ---------------------------- *)

\* 60 * 60 * 1000: one hour in ms.
HourMs == 3600000

\* The clock is followed for this many hours.
MaxHours == 2

\* The olderThanHours arguments.
HoursArgs == 0..MaxHours

OldTasks_Inclusive(olderThanHours) ==
    {k \in DOMAIN tasks : tasks[k].updatedAt <= now - olderThanHours * HourMs}

\* The entries cleanupOldTasks deletes: task.updatedAt < cutoffTime, the
\* cutoff being Date.now() - olderThanHours * 60 * 60 * 1000.
OldTasks(olderThanHours) ==
    {k \in DOMAIN tasks : tasks[k].updatedAt < now - olderThanHours * HourMs}

\* One hour passes.
HourTick ==
    /\ now < MaxHours * HourMs
    /\ now' = now + HourMs
    /\ UNCHANGED <<workerVars, audioVars, mixVars, lastCall, polled, request,
                   framesStamp, outputStamp, imageVars, fftVars, moreVars>>

\* renderTaskManager.cleanupOldTasks(olderThanHours); the record of the call
\* keeps, as its progress, the number of entries the call found.
CallCleanupHours(olderThanHours) ==
    /\ tasks' = cleanupOldTasks(tasks, OldTasks(olderThanHours))
    /\ lastCall' = [NoCall EXCEPT
                       !.op = "cleanupOldTasks",
                       !.before = [status |-> "",
                                   progress |-> Cardinality(DOMAIN tasks)]]
    /\ UNCHANGED restVars

\* Tasks created and updated while the hours pass, and cleanups.
CleanupNext ==
    \/ HourTick
    \/ \E id \in AllIds : CallCreate(id) \/ CallUpdateProgress(id)
    \/ \E h \in HoursArgs : CallCleanupHours(h)

CleanupSpec == Init /\ [][CleanupNext]_vars

(* ---------------------------- concurrent jobs --------------------------- *)

\* The clock is followed for this many ms.
MaxClock == 2

\* One ms passes.
Tick ==
    /\ now < MaxClock
    /\ now' = now + 1
    /\ UNCHANGED <<workerVars, audioVars, mixVars, lastCall, polled, request,
                   framesStamp, outputStamp, imageVars, fftVars, moreVars>>

\* Jobs of one frame without audio.
ConcParameters == [durHalves : {1}, fps : {1}, audio : {0}]

\* POST with a request without audio: createTask, then the synchronous head
\* of performRender up to `await mkdir`, which names framesDir and outputPath
\* after two readings of the clock, then the response.
ConcSubmit(t) ==
    /\ pc[t] = "idle"
    /\ \E p \in ConcParameters :
        /\ parameters' = [parameters EXCEPT ![t] = p]
        /\ tasks' = updateTaskStatus(createTask(tasks, t, p), t, "processing", 0)
    /\ pc' = [pc EXCEPT ![t] = "mkdir"]
    /\ \E later \in {now, Min(now + 1, MaxClock)} :
        /\ framesStamp' = [framesStamp EXCEPT ![t] = now]
        /\ outputStamp' = [outputStamp EXCEPT ![t] = later]
        /\ now' = later
    /\ response' =
           [response EXCEPT ![t] = [code |-> 200, success |-> TRUE, taskId |-> t]]
    /\ UNCHANGED <<validatedAudioTracks, browser, page, loopVars, fileVars,
                   renderLog, encVars, fault, audioVars, mixVars, lastCall,
                   polled, request, imageVars, fftVars, moreVars>>

\* The steps of one worker: the run without failures, and the failure of
\* mkdir for the failures (each step's own failure is followed under Spec).
ConcWorker(t) ==
    \/ ConcSubmit(t)
    \/ MkdirOk(t) \/ MkdirFail(t)
    \/ LaunchOk(t)
    \/ PageOk(t)
    \/ RenderReturn(t)
    \/ InjectOk(t)
    \/ ReadyMet(t)
    \/ DebugTryOk(t)
    \/ CaptureOk(t)
    \/ ClosePageOk(t)
    \/ CloseContextsOk(t)
    \/ CloseBrowserOk(t)
    \/ EncoderProgress(t)
    \/ EncoderEnd(t)
    \/ CleanupFrames(t)
    \/ StatOk(t)
    \/ Catch(t)

\* Several jobs at once on the one event loop.
ConcNext == Tick \/ \E t \in AllIds : ConcWorker(t)

ConcSpec == Init /\ [][ConcNext]_vars

(* ------------------------------ image wait ----------------------------- *)

\* Image elements one frame's page may come to hold.
MaxImages == 2

ImageIds == 1..MaxImages

\* The variables the image wait leaves alone.
imageRest ==
    <<workerVars, audioVars, mixVars, lastCall, polled, request, clockVars,
      fftVars, moreVars>>

\* The body is cleared, the markup's div appended and its script run: the page
\* holds the images of the markup, their requests just issued.
ImgInject ==
    /\ imagePc = "inject"
    /\ \E m \in SUBSET ImageIds : images' = [i \in m |-> "pending"]
    /\ imagePc' = "detect"
    /\ UNCHANGED <<waited, waitRejected, imageRest>>

\* hasImages = document.querySelectorAll("img").length > 0
ImgDetect ==
    /\ imagePc = "detect"
    /\ imagePc' = IF DOMAIN images # {} THEN "attach" ELSE "capture"
    /\ UNCHANGED <<images, waited, waitRejected, imageRest>>

\* The wait's function runs in the page: it counts the images that are
\* complete and listens for load and error on the others.
ImgAttach ==
    /\ imagePc = "attach"
    /\ waited' = DOMAIN images
    /\ imagePc' = "wait"
    /\ UNCHANGED <<images, waitRejected, imageRest>>

\* The wait's promise resolves: every image it counted has settled.
ImgWaitResolve ==
    /\ imagePc = "wait"
    /\ \A i \in waited : images[i] # "pending"
    /\ imagePc' = "netidle"
    /\ UNCHANGED <<images, waited, waitRejected, imageRest>>

\* page.evaluate of the wait rejects; the catch logs "Image loading timeout"
\* and the frame goes on.
ImgWaitReject ==
    /\ imagePc \in {"attach", "wait"}
    /\ waitRejected' = TRUE
    /\ imagePc' = "netidle"
    /\ UNCHANGED <<images, waited, imageRest>>

\* waitForLoadState("networkidle") resolves: no request is in flight.
ImgNetIdle ==
    /\ imagePc = "netidle"
    /\ \A i \in DOMAIN images : images[i] # "pending"
    /\ imagePc' = "capture"
    /\ UNCHANGED <<images, waited, waitRejected, imageRest>>

\* ... or rejects after 15000 ms; the catch logs and the frame goes on.
ImgNetIdleTimeout ==
    /\ imagePc = "netidle"
    /\ imagePc' = "capture"
    /\ UNCHANGED <<images, waited, waitRejected, imageRest>>

\* page.screenshot
ImgCapture ==
    /\ imagePc = "capture"
    /\ imagePc' = "captured"
    /\ UNCHANGED <<images, waited, waitRejected, imageRest>>

\* The next frame of the loop.
ImgNextFrame ==
    /\ imagePc = "captured"
    /\ imagePc' = "inject"
    /\ images' = <<>>
    /\ waited' = {}
    /\ waitRejected' = FALSE
    /\ UNCHANGED imageRest

\* An image's load or error event.
ImgSettle(i) ==
    /\ i \in DOMAIN images
    /\ images[i] = "pending"
    /\ \E outcome \in {"loaded", "errored"} :
          images' = [images EXCEPT ![i] = outcome]
    /\ UNCHANGED <<waited, imagePc, waitRejected, imageRest>>

\* The markup's script, still running on the page (a timer, a fetch),
\* appends an image element.
ImgScriptAdds(i) ==
    /\ imagePc \in {"detect", "attach", "wait", "netidle", "capture"}
    /\ i \notin DOMAIN images
    /\ images' = [k \in DOMAIN images \cup {i} |->
                     IF k = i THEN "pending" ELSE images[k]]
    /\ UNCHANGED <<waited, imagePc, waitRejected, imageRest>>

\* One page of the frame loop, from the injection to the capture.
ImageNext ==
    \/ ImgInject \/ ImgDetect \/ ImgAttach
    \/ ImgWaitResolve \/ ImgWaitReject
    \/ ImgNetIdle \/ ImgNetIdleTimeout
    \/ ImgCapture \/ ImgNextFrame
    \/ \E i \in ImageIds : ImgSettle(i) \/ ImgScriptAdds(i)

ImageSpec == Init /\ [][ImageNext]_vars

(* ------------------------------- audio-fft ------------------------------ *)

\* Cache valid for 1 hour: 60 * 60 * 1000 ms.
CacheValidMs == 3600000

\* The clock of the route is followed for this many half hours.
MaxFftTicks == 2

\* getCacheKey: the md5 of `${audioUrl}_${time}_${bars}_${smoothness}_${frames}`.
\* The last four fields are numbers, so the string, and with it the key,
\* names the five values; the duration is not part of it.
getCacheKey(req) == <<req.url, req.time, req.bars, req.smoothness, req.frames>>

\* analyzeAudioFFT: the spectrum of the segment of `duration` at `time`, as
\* many bars and frames as asked, named here by what it was computed from.
analyzeAudioFFT(req) ==
    <<req.url, req.time, req.duration, req.bars, req.smoothness, req.frames>>

\* The variables the audio-fft route leaves alone.
fftRest ==
    <<workerVars, audioVars, mixVars, lastCall, polled, request, clockVars,
      imageVars, moreVars>>

\* Half an hour passes.
FftTick ==
    /\ fftNow < MaxFftTicks * (CacheValidMs \div 2)
    /\ fftNow' = fftNow + CacheValidMs \div 2
    /\ UNCHANGED <<fftCache, fftLast, fftFirst, fftPending, fftRest>>

\* getCachedFFT finds a file younger than an hour: the response has its
\* spectrum and cached: true.
FftHit(req) ==
    /\ getCacheKey(req) \in DOMAIN fftCache
    /\ fftNow - fftCache[getCacheKey(req)].mtime < CacheValidMs
    /\ fftLast' = [code |-> 200, key |-> getCacheKey(req), cached |-> TRUE,
                   spectrum |-> fftCache[getCacheKey(req)].spectrum]
    /\ UNCHANGED <<fftCache, fftNow, fftFirst, fftPending, fftRest>>

\* getCachedFFT returns null: no file, a file of an hour or more (which it
\* deletes), or a failure of the read, which is caught.  The analysis starts.
FftMiss(req) ==
    /\ \/ /\ getCacheKey(req) \notin DOMAIN fftCache
          /\ UNCHANGED fftCache
       \/ /\ getCacheKey(req) \in DOMAIN fftCache
          /\ fftNow - fftCache[getCacheKey(req)].mtime >= CacheValidMs
          /\ fftCache' = [k \in DOMAIN fftCache \ {getCacheKey(req)} |->
                             fftCache[k]]
       \/ /\ getCacheKey(req) \in DOMAIN fftCache
          /\ UNCHANGED fftCache
    /\ fftPending' = fftPending \cup {req}
    /\ UNCHANGED <<fftNow, fftLast, fftFirst, fftRest>>

\* analyzeAudioFFT resolves: setCachedFFT writes the file, or fails and only
\* warns; the response has the spectrum and cached: false.
FftAnalysed(req) ==
    /\ req \in fftPending
    /\ fftPending' = fftPending \ {req}
    /\ \/ fftCache' =
              [k \in DOMAIN fftCache \cup {getCacheKey(req)} |->
                  IF k = getCacheKey(req)
                  THEN [spectrum |-> analyzeAudioFFT(req), mtime |-> fftNow]
                  ELSE fftCache[k]]
       \/ UNCHANGED fftCache
    /\ fftLast' = [code |-> 200, key |-> getCacheKey(req), cached |-> FALSE,
                   spectrum |-> analyzeAudioFFT(req)]
    /\ fftFirst' = [fftFirst EXCEPT ![req] = fftNow]
    /\ UNCHANGED <<fftNow, fftRest>>

\* analyzeAudioFFT rejects: the 500 response.
FftAnalysisFails(req) ==
    /\ req \in fftPending
    /\ fftPending' = fftPending \ {req}
    /\ fftLast' = [NoFftResponse EXCEPT !.code = 500, !.key = getCacheKey(req)]
    /\ UNCHANGED <<fftCache, fftNow, fftFirst, fftRest>>

\* GET /api/audio-fft, requests overlapping at the await of the analysis.
FftNext ==
    \/ FftTick
    \/ \E req \in FftRequests :
          \/ FftHit(req)
          \/ FftMiss(req)
          \/ FftAnalysed(req)
          \/ FftAnalysisFails(req)

FftSpec == Init /\ [][FftNext]_vars

(* ------------------------------ POST requests --------------------------- *)

\* A JSON value whose typeof is not "number"; a field that is absent.
NotANumber == -1000
Undefined == -2000

IsNumber(x) == x \notin {NotANumber, Undefined}

\* One element of body.audio.  Numbers are in halves (1 is 0.5).
TrackBodies ==
    [object : {TRUE},
     url : {"notstring", "blank", "ok"},
     start : {NotANumber, -1, 0, 2},
     end : {Undefined, NotANumber, 0, 1, 3},
     volume : {NotANumber, -1, 1, 3}]
    \cup {[object |-> FALSE, url |-> "notstring", start |-> NotANumber,
           end |-> Undefined, volume |-> NotANumber]}

\* body.audio: absent, not an array, or an array.
AudioBodies ==
    {[kind |-> "undefined", items |-> <<>>],
     [kind |-> "notarray", items |-> <<>>],
     [kind |-> "array", items |-> <<>>]}
    \cup {[kind |-> "array", items |-> <<tr>>] : tr \in TrackBodies}

\* Bodies of POST requests: JSON objects.  Numbers are in halves, so fps 1 is
\* 0.5 frames per second and fps 120 is 60.
Requests ==
    [width : {NotANumber, 0, 2},
     height : {NotANumber, 0, 2},
     duration : {NotANumber, 0, 2},
     render : {"notstring", "blank", "code"},
     fps : {Undefined, NotANumber, 0, 1, 2, 121},
     quality : {"undefined", "high", "ultra"},
     audio : AudioBodies]

\* The checks of one audio[i], in the order of the code.
ValidTrack(tr, duration) ==
    /\ tr.object
    /\ tr.url = "ok"
    /\ IsNumber(tr.start) /\ ~(tr.start < 0)
    /\ ~(tr.start >= duration)
    /\ ~(tr.end # Undefined /\ (~IsNumber(tr.end) \/ tr.end <= tr.start))
    /\ ~(tr.end # Undefined /\ tr.end > duration)
    /\ IsNumber(tr.volume) /\ ~(tr.volume < 0) /\ ~(tr.volume > 2)

\* The checks of POST between the parsing of the body and createTask: the
\* request passes if none of them returns a 400 response.
ValidRequest(req) ==
    /\ IsNumber(req.width) /\ ~(req.width <= 0)
    /\ IsNumber(req.height) /\ ~(req.height <= 0)
    /\ IsNumber(req.duration) /\ ~(req.duration <= 0)
    /\ req.render = "code"
    /\ ~(req.fps # Undefined /\ (~IsNumber(req.fps) \/ req.fps <= 0 \/ req.fps > 120))
    /\ ~(req.quality # "undefined" /\ req.quality \notin {"low", "medium", "high"})
    /\ req.audio.kind # "undefined" =>
          /\ req.audio.kind = "array"
          /\ \A i \in DOMAIN req.audio.items :
                ValidTrack(req.audio.items[i], req.duration)

\* POST with a body that fails a check: the 400 response, nothing else.
PostReject(t) ==
    /\ pc[t] = "idle"
    /\ request[t] = NoRequest
    /\ \E req \in Requests :
          /\ ~ValidRequest(req)
          /\ request' = [request EXCEPT ![t] = req]
    /\ response' =
           [response EXCEPT ![t] = [code |-> 400, success |-> FALSE, taskId |-> ""]]
    /\ UNCHANGED <<tasks, parameters, pc, validatedAudioTracks, browser, page,
                   loopVars, fileVars, renderLog, encVars, fault, audioVars,
                   mixVars, lastCall, polled, clockVars, imageVars, fftVars, moreVars>>

\* POST with a body that passes: createTask and performRender are given the
\* fields of the body as they came, the head of performRender runs, the
\* response carries the task id.
PostAccept(t) ==
    /\ pc[t] = "idle"
    /\ request[t] = NoRequest
    /\ \E req \in Requests :
          /\ ValidRequest(req)
          /\ request' = [request EXCEPT ![t] = req]
          /\ parameters' = [parameters EXCEPT ![t] = req]
          /\ LET created == createTask(tasks, t, req)
                 started == updateTaskStatus(created, t, "processing", 0)
             IN  IF Len(req.audio.items) > 0
                 THEN /\ tasks' = updateTaskProgress(started, t, 5)
                      /\ pc' = [pc EXCEPT ![t] = "validate"]
                 ELSE /\ tasks' = started
                      /\ pc' = [pc EXCEPT ![t] = "mkdir"]
    /\ response' =
           [response EXCEPT ![t] = [code |-> 200, success |-> TRUE, taskId |-> t]]
    /\ UNCHANGED <<validatedAudioTracks, browser, page, loopVars, fileVars,
                   renderLog, encVars, fault, audioVars, mixVars, lastCall,
                   polled, clockVars, imageVars, fftVars, moreVars>>

\* The POST handler from the parsed body to its response.
PostNext == \E t \in SpecIds : PostReject(t) \/ PostAccept(t)

PostSpec == Init /\ [][PostNext]_vars

(* ------------------------------- polling -------------------------------- *)

\* GET /api/render/<taskId>: 404 for an unknown id; otherwise status and
\* progress, with `result` for a completed task that has one and `error` for
\* a failed task that has one.
TaskStatusResponse(id) ==
    IF id \notin DOMAIN tasks
    THEN [NoPoll EXCEPT !.code = 404]
    ELSE [code |-> 200,
          status |-> tasks[id].status,
          progress |-> tasks[id].progress,
          hasResult |-> tasks[id].status = "completed" /\ tasks[id].result.present,
          hasError |-> tasks[id].status = "failed" /\ tasks[id].result.present]

Poll(id) ==
    /\ polled' = TaskStatusResponse(id)
    /\ UNCHANGED <<workerVars, audioVars, mixVars, lastCall, request,
                   clockVars, imageVars, fftVars, moreVars>>

\* A job and a client that polls at any moment, for any id.
PollNext ==
    \/ \E t \in SpecIds :
          \/ SubmitShort(t)
          \/ Advance(t)
          \/ EncoderProgress(t)
          \/ EncoderTick(t)
          \/ MixerProgress(t)
    \/ \E id \in AllIds : Poll(id)

PollSpec == Init /\ [][PollNext]_vars

(* ---------------------- downloadAudioFileGeneric ----------------------- *)

\* The URLs a download may be sent to.
DlUrls == {"u1", "u2"}

\* What a server does with a request: it answers with a redirect status and
\* a location, after which it closes the connection or keeps it open; it
\* answers 200 and sends the body, or stops in the middle of it; it answers
\* with another status (or a redirect status without a location), breaks the
\* connection, or never answers.
DlResponses ==
    [kind : {"redirect"}, to : DlUrls, close : BOOLEAN]
        \cup [kind : {"ok", "stall", "status", "error", "silent"},
              to : {"none"}, close : {TRUE}]

DlRest ==
    <<workerVars, audioVars, mixVars, lastCall, polled, request, clockVars,
      imageVars, fftVars, ctxVars, orderVars>>

\* downloadAudioFileGeneric(url, tempDir, filename) is called: the request
\* is sent and its idle timer of two minutes is set.
DlStart ==
    /\ dlState = "idle"
    /\ \E server \in [DlUrls -> DlResponses] : dlServer' = server
    /\ \E u \in DlUrls : dlUrl' = u
    /\ dlState' = "requesting"
    /\ UNCHANGED <<DlRest, dlFile, dlArmed, dlHop>>

\* A redirect status with a location: the function calls itself with the
\* location and settles as that call does.  The response is not read; if the
\* server leaves the connection open, the idle timer of this request goes on.
DlRedirect ==
    /\ dlState = "requesting"
    /\ dlServer[dlUrl].kind = "redirect"
    /\ dlUrl' = dlServer[dlUrl].to
    /\ dlArmed' = (dlArmed \/ ~dlServer[dlUrl].close)
    /\ dlHop' = 1 - dlHop
    /\ UNCHANGED <<DlRest, dlServer, dlState, dlFile>>

\* The idle timer of a request that was redirected fires: its promise is
\* rejected, and with it every promise up to the outermost one.
DlStaleTimeout ==
    /\ dlState \in {"requesting", "writing"}
    /\ dlArmed
    /\ dlState' = "rejected"
    /\ UNCHANGED <<DlRest, dlServer, dlUrl, dlFile, dlArmed, dlHop>>

\* res.statusCode !== 200
DlStatus ==
    /\ dlState = "requesting"
    /\ dlServer[dlUrl].kind = "status"
    /\ dlState' = "rejected"
    /\ UNCHANGED <<DlRest, dlServer, dlUrl, dlFile, dlArmed, dlHop>>

\* req.on('error')
DlError ==
    /\ dlState = "requesting"
    /\ dlServer[dlUrl].kind = "error"
    /\ dlState' = "rejected"
    /\ UNCHANGED <<DlRest, dlServer, dlUrl, dlFile, dlArmed, dlHop>>

\* req.setTimeout(120000): the server does not answer.
DlTimeout ==
    /\ dlState = "requesting"
    /\ dlServer[dlUrl].kind = "silent"
    /\ dlState' = "rejected"
    /\ UNCHANGED <<DlRest, dlServer, dlUrl, dlFile, dlArmed, dlHop>>

\* Status 200: the write stream is created and the response piped into it.
DlOk ==
    /\ dlState = "requesting"
    /\ dlServer[dlUrl].kind \in {"ok", "stall"}
    /\ dlState' = "writing"
    /\ dlFile' = "partial"
    /\ UNCHANGED <<DlRest, dlServer, dlUrl, dlArmed, dlHop>>

\* fileStream.on('finish')
DlFinish ==
    /\ dlState = "writing"
    /\ dlServer[dlUrl].kind = "ok"
    /\ dlState' = "resolved"
    /\ dlFile' = "complete"
    /\ UNCHANGED <<DlRest, dlServer, dlUrl, dlArmed, dlHop>>

\* fileStream.on('error'): the partial file is unlinked.
DlWriteError ==
    /\ dlState = "writing"
    /\ dlState' = "rejected"
    /\ dlFile' = "none"
    /\ UNCHANGED <<DlRest, dlServer, dlUrl, dlArmed, dlHop>>

\* The body stops coming: the idle timer of the request fires.
DlStall ==
    /\ dlState = "writing"
    /\ dlServer[dlUrl].kind = "stall"
    /\ dlState' = "rejected"
    /\ UNCHANGED <<DlRest, dlServer, dlUrl, dlFile, dlArmed, dlHop>>

\* A step of the request in flight.
DlStep ==
    \/ DlRedirect \/ DlStatus \/ DlError \/ DlTimeout
    \/ DlOk \/ DlFinish \/ DlStall

DlNext == DlStart \/ DlStep \/ DlWriteError \/ DlStaleTimeout

\* Every server does what it was chosen to do, and every timer that runs
\* fires; a write error may or may not happen.
DlSpec ==
    /\ Init /\ [][DlNext]_vars
    /\ WF_vars(DlStep)
    /\ WF_vars(DlStaleTimeout)

(* ----------------------------- frame context --------------------------- *)

\* Keys the caller may put into args, and the value the caller gives them.
ArgKeys == {"time", "frame", "width", "color"}
ArgValue == -1

\* The argument bags: args is absent (an empty bag: args || {}) or an object
\* with some of the keys.
ArgBags ==
    {[k \in keys |-> ArgValue] : keys \in SUBSET ArgKeys}

\* Jobs whose frame times are whole half seconds.
CtxJobs ==
    [durHalves : 1..MaxDurHalves, fps : {1, 2}, width : {2, 4}, height : {2},
     args : ArgBags]

\* { ...a, ...b }: the keys of both, a key of b taking b's value.
Spread(a, b) ==
    [k \in DOMAIN a \cup DOMAIN b |-> IF k \in DOMAIN b THEN b[k] ELSE a[k]]

\* const time = frame / fps, in half seconds
FrameTime(f, job) == (2 * f) \div Fps(job)

\* The computed entries of the context.
FrameFields(f, job) ==
    [k \in {"time", "frame", "duration", "width", "height"} |->
        CASE k = "time" -> FrameTime(f, job)
          [] k = "frame" -> f
          [] k = "duration" -> job.durHalves
          [] k = "width" -> job.width
          [] k = "height" -> job.height]

\* { time, frame, duration, width, height, ...(args || {}) }
FrameContext(f, job) == Spread(FrameFields(f, job), job.args)

CtxRest ==
    <<workerVars, audioVars, mixVars, lastCall, polled, request, clockVars,
      imageVars, fftVars, dlVars, orderVars>>

\* A job is started with its args.
CtxSubmit ==
    /\ ctxJob = NoCtxJob
    /\ \E job \in CtxJobs : ctxJob' = job
    /\ UNCHANGED <<CtxRest, context>>

\* The context of frame f is built and handed to the render function.
CtxFrame(f) ==
    /\ ctxJob # NoCtxJob
    /\ f < TotalFrames(ctxJob)
    /\ context' = FrameContext(f, ctxJob)
    /\ UNCHANGED <<CtxRest, ctxJob>>

CtxNext == CtxSubmit \/ \E f \in 0..(MaxDurHalves * 2) : CtxFrame(f)

CtxSpec == Init /\ [][CtxNext]_vars

(* ------------------------------ properties ----------------------------- *)

\* Where a worker is between a throw and the stored error result.
FailurePath == {"finally", "close_contexts", "close_browser", "catch", "done"}

Terminal(t) ==
    t \in DOMAIN tasks /\ tasks[t].status \in {"completed", "failed"}

Completed(t) == t \in DOMAIN tasks /\ tasks[t].status = "completed"

Failed(t) == t \in DOMAIN tasks /\ tasks[t].status = "failed"

\* ceil(duration * fps), fps being 24 when the request omits it: the least n
\* with n >= (durHalves / 2) * fps.
ExpectedFrames(p) ==
    LET f == IF p.fps = NoFps THEN 24 ELSE p.fps
    IN  CHOOSE n \in 0..(p.durHalves * f) :
            /\ 2 * n >= p.durHalves * f
            /\ 2 * (n - 1) < p.durHalves * f

\* <<0, 1, ..., n - 1>>
Indices(n) == [i \in 1..n |-> i - 1]

\* C1: from one registry update to the next a task's progress never
\* decreases, and a progress of 100 is only ever stored together with a
\* terminal status (completed or failed).
C1_ProgressMonotoneTerminal100 ==
    [][\A t \in DOMAIN tasks' :
          /\ t \in DOMAIN tasks => tasks'[t].progress >= tasks[t].progress
          /\ tasks'[t].progress = 100 =>
                 tasks'[t].status \in {"completed", "failed"}]_vars

\* C2: once the validation of a job's audio tracks has failed, the surface is
\* never launched, the render function never invoked and no frame captured,
\* the worker is on the failure path, and it ends with the task failed.
C2_AudioFailFast ==
    \A t \in AllIds :
        fault[t] = "audio" =>
            /\ browser[t] = "none"
            /\ renderLog[t] = <<>>
            /\ framePaths[t] = <<>>
            /\ frameFiles[t] = {}
            /\ pc[t] \in {"catch", "done"}
            /\ pc[t] = "done" => Failed(t)

C2_Witness ==
    \E t \in AllIds :
        fault[t] = "audio" /\ pc[t] = "done" /\ Failed(t) /\ parameters[t].audio = 2

\* C3: the render function is invoked with the frame indices 0, 1, 2, ... in
\* this order, none skipped or repeated (also across batches) and none beyond
\* N - 1, N = ceil(duration * fps); a job that gets to the encoder has invoked
\* it exactly N times; a job that failed at frame k has invoked every index
\* below k once and none above k.
C3_RenderOncePerFrameInOrder ==
    \A t \in AllIds :
        LET N == ExpectedFrames(parameters[t])
            n == Len(renderLog[t])
        IN  /\ renderLog[t] = Indices(n)
            /\ n <= N
            /\ frame[t] <= n /\ n <= frame[t] + 1
            /\ (encoder[t] # "idle" \/ Completed(t)) => n = N
            /\ fault[t] \in {"render", "capture"} => n = frame[t] + 1

C3_Witness ==
    \E t \in AllIds :
        Completed(t) /\ renderLog[t] = <<0, 1, 2, 3, 4>> /\ parameters[t].durHalves = 3

C5_CompletesWheneverAllRespond ==
    \A t \in AllIds :
        (/\ pc[t] = "done"
         /\ encoder[t] = "ended"
         /\ fault[t] \in {"none", "encoder_timeout"}) => Completed(t)

\* C5 (amended): every submitted task whose worker meets no failure, the
\* encoder's deadline counting as one, eventually is done and completed with
\* a video payload.
C5_EventuallyCompleted ==
    \A t \in AllIds :
        (pc[t] # "idle") ~>
            (/\ pc[t] = "done"
             /\ fault[t] = "none" =>
                    (Completed(t) /\ tasks[t].result.success
                     /\ tasks[t].result.hasVideo))

C5_Witness ==
    \E t \in AllIds :
        /\ pc[t] = "done" /\ fault[t] = "none" /\ Completed(t)
        /\ validatedAudioTracks[t] > 0 /\ outputFile[t] = "muxed"

\* C6: once the render function has thrown at a frame, no later frame is
\* rendered, the encoder is never started and no video is written, and the
\* worker ends with the task failed, holding success = false, an error
\* message, details and no video payload.
C6_RenderThrowFails ==
    \A t \in AllIds :
        fault[t] = "render" =>
            /\ pc[t] \in FailurePath
            /\ renderLog[t][Len(renderLog[t])] = frame[t]
            /\ encoder[t] = "idle"
            /\ outputFile[t] = "none"
            /\ pc[t] = "done" =>
                   /\ Failed(t)
                   /\ tasks[t].result.present
                   /\ ~tasks[t].result.success
                   /\ tasks[t].result.error # ""
                   /\ tasks[t].result.details # ""
                   /\ ~tasks[t].result.hasVideo

C6_Witness ==
    \E t \in AllIds :
        fault[t] = "render" /\ pc[t] = "done" /\ frame[t] = 3 /\ Failed(t)

\* C7: a readiness wait that times out throws nothing: the worker goes on to
\* the capture of the same frame, the capture stores the frame at its index
\* and the loop goes on; a job with timeouts and no failure completes with
\* all its frames.
C7_ReadinessTimeoutIsSoft ==
    [][\A t \in AllIds :
          /\ (pc[t] = "ready" /\ timedOut'[t]) =>
                 (pc'[t] = "debug_catch" /\ fault'[t] = "none")
          /\ timedOut'[t] =>
                 \/ pc'[t] \in {"debug_catch", "capture"} /\ fault'[t] = "none"
                 \/ fault'[t] \in {"page", "capture"}
          /\ (timedOut[t] /\ pc[t] = "capture" /\ fault'[t] = "none") =>
                 /\ framePaths'[t] = Append(framePaths[t], frame[t])
                 /\ frame[t] \in frameFiles'[t]
                 /\ pc'[t] \in {"render", "pause", "finally"}
          /\ (everTimedOut'[t] /\ pc'[t] = "done" /\ fault'[t] = "none") =>
                 /\ Completed(t)'
                 /\ Len(framePaths'[t]) = ExpectedFrames(parameters'[t])]_vars

C7_Witness ==
    \E t \in AllIds :
        everTimedOut[t] /\ Completed(t) /\ Len(framePaths[t]) = 3

C9_EveryFailureRecorded ==
    \A t \in AllIds :
        /\ fault[t] # "none" =>
               /\ pc[t] \in FailurePath
               /\ pc[t] = "done" =>
                      /\ Failed(t)
                      /\ tasks[t].result.present
                      /\ ~tasks[t].result.success
                      /\ tasks[t].result.error = "Failed to render video"
                      /\ tasks[t].result.details = ErrorMessage(fault[t])
        /\ (t \in DOMAIN tasks /\ tasks[t].status \in {"pending", "processing"})
               => pc[t] # "done"

C9_Witness ==
    \E t \in AllIds :
        fault[t] = "encoder_timeout" /\ pc[t] = "done" /\ Failed(t)

\* C10: whenever a task is completed or failed, no frame image of its job is
\* left on the scratch area and its frames directory is gone.
C10_FramesDeletedAtTerminal ==
    \A t \in AllIds :
        Terminal(t) => (frameFiles[t] = {} /\ ~framesDir[t])

(* C11: on every path, the browser that was launched is closed before
   encoding starts and before a failure is recorded, also when frame
   rendering throws and when closing the page or a context itself fails.
   Violated: context.close() and browser.close() share one try block, so a
   rejected context.close() skips browser.close(). *)
C11_BrowserClosedBeforeEncodingOrFailure ==
    \A t \in AllIds :
        (encoder[t] # "idle" \/ Terminal(t)) => browser[t] # "open"

\* The deadline as the claim states it: 30 s, or 10 s per second of video
\* (5 s per half second) if that is more.
Deadline(p) ==
    IF p.durHalves * 5000 > 30000 THEN p.durHalves * 5000 ELSE 30000

TimeoutFailure(t) ==
    /\ Failed(t)
    /\ tasks[t].result.details = "FFmpeg timeout after ...ms"

(* C12: the worker waits for the encoder no longer than the deadline
   max(30 s, 10 s per second of duration); the timeout rejection happens at
   that deadline only, with the encoder neither finished nor errored, it
   ends the wait without mixing, and the task then ends failed with the
   timeout error. *)
C12_EncoderDeadline ==
    /\ [](\A t \in AllIds :
            /\ encoderElapsed[t] <= Deadline(parameters[t])
            /\ fault[t] = "encoder_timeout" =>
                 /\ encoderElapsed[t] = Deadline(parameters[t])
                 /\ encoder[t] # "idle"
                 /\ pc[t] \in {"catch", "done"}
                 /\ ~mixedFile[t]
                 /\ pc[t] = "done" => TimeoutFailure(t))
    /\ \A t \in AllIds :
          (fault[t] = "encoder_timeout") ~> TimeoutFailure(t)

C12_Witness ==
    \E t \in AllIds :
        /\ parameters[t].durHalves = LongDurHalves
        /\ fault[t] = "encoder_timeout"
        /\ TimeoutFailure(t)

\* validateAudioTracks has left its batch loop.
ValidationReturned ==
    trackState # <<>> /\ batchI >= Len(audioTracks)

FailedTracks == {k \in DOMAIN trackState : trackState[k] = "failed"}

(* C13: validateAudioTracks reports success exactly when every track
   validated; on success validatedTracks holds one valid entry per input
   track and the job keeps them all; on failure errors holds one entry per
   failed track and the job uses none of the tracks: it fails. *)
C13_ValidationResult ==
    \A t \in SpecIds :
        ValidationReturned =>
            /\ audioResult.success <=>
                   \A k \in DOMAIN trackState : trackState[k] = "valid"
            /\ audioResult.success =>
                   audioResult.validatedTracks = DOMAIN audioTracks
            /\ ~audioResult.success =>
                   /\ Len(audioResult.errors) = Cardinality(FailedTracks)
                   /\ {audioResult.errors[j] :
                          j \in DOMAIN audioResult.errors} = FailedTracks
                   /\ validatedAudioTracks[t] = 0
                   /\ pc[t] \in {"validated", "catch", "done"}
                   /\ pc[t] = "done" => Failed(t)
            /\ pc[t] = "mkdir" =>
                   validatedAudioTracks[t] = Len(audioTracks)

C13_Witness ==
    \E t \in SpecIds :
        /\ ValidationReturned
        /\ Len(audioTracks) > 3
        /\ trackState[1] = "valid"
        /\ trackState[2] = "failed"
        /\ trackState[4] = "failed"
        /\ Failed(t)

\* Validations in flight: started and not settled.
InFlight ==
    {k \in DOMAIN trackState : trackState[k] \in {"downloading", "probing"}}

(* C14: at most 3 validations are in flight at any time, and no track of a
   later batch of 3 is started before every track of the batches before it
   has settled. *)
C14_BatchesOfThree ==
    /\ Cardinality(InFlight) <= 3
    /\ \A j, k \in DOMAIN trackState :
          ((j - 1) \div 3 < (k - 1) \div 3 /\ trackState[k] # "waiting")
              => trackState[j] \in {"valid", "failed"}

C14_Witness ==
    /\ Len(audioTracks) > 3
    /\ trackState # <<>>
    /\ trackState[4] \in {"downloading", "probing"}
    /\ trackState[1] = "valid"

(* C15: when validation fails, no downloaded file remains in the audio
   scratch directory, also for tracks that validated while another failed
   and for tracks whose download succeeded but whose probe failed.
   Violated: validateAudioTrack's catch tests result.localPath, which is set
   only after the probe, so a probed-and-rejected download is never
   unlinked. *)
C15_NoDownloadLeftOnFailure ==
    \A t \in SpecIds :
        (ValidationReturned /\ fault[t] = "audio") => audioDir = {}

(* C16: for every job with validated tracks, the audio stream of the final
   video is no longer than the job duration, whatever the tracks' lengths
   and (valid) start and end values are. *)
C16_AudioWithinDuration ==
    finalAudio # NoAudio =>
        /\ finalAudio <= mixInput.p.durHalves
        /\ finalAudio <= VideoHalves(mixInput.p)

C16_Witness ==
    /\ finalAudio # NoAudio
    /\ mixedAudio > mixInput.p.durHalves
    /\ VideoHalves(mixInput.p) > mixInput.p.durHalves
    /\ finalAudio = mixInput.p.durHalves

(* C17: replacing the video-only file by the muxed file is atomic: during
   and after the replacement, also when one of its steps fails, outputPath
   holds the complete video-only file or the complete muxed file.
   Violated: outputPath is unlinked first and renamed onto afterwards. *)
C17_ReplacementAtomic ==
    \A t \in AllIds :
        (pc[t] \in {"unlink", "rename"} \/ fault[t] = "replace"
             \/ (validatedAudioTracks[t] > 0 /\ pc[t] \in {"cleanup", "stat"}))
            => outputFile[t] \in {"video", "muxed"}

(* C18: if audio mixing or the replacement that follows it fails, the task
   ends failed and the video-only file the encoder produced is removed from
   the scratch area.
   Violated: the catch block removes the audio files only. *)
C18_VideoOnlyFileDiscarded ==
    \A t \in AllIds :
        (pc[t] = "done" /\ fault[t] \in {"mix", "replace"})
            => (Failed(t) /\ outputFile[t] # "video")

\* A worker step of t: its place in performRender changes.
WorkerStep(t) == pc[t] # "idle" /\ pc'[t] # pc[t]

\* An update call on the registry is made in this step.
UpdateCall ==
    /\ lastCall' # lastCall
    /\ lastCall'.op \in {"updateTaskStatus", "updateTaskProgress", "setTaskResult"}

Evicted(t) == pc[t] # "idle" /\ t \notin DOMAIN tasks

(* C19: updateTaskStatus, updateTaskProgress and setTaskResult called with
   an id that is not in the registry (never created, or evicted) change no
   task and create no entry; a worker whose task was evicted mid-run goes on
   to its end without failing on that account and without re-creating the
   task. *)
C19_UnknownIdIsNoOp ==
    /\ [][/\ (UpdateCall /\ lastCall'.id \notin DOMAIN tasks) => tasks' = tasks
          /\ \A t \in AllIds :
                (Evicted(t) /\ WorkerStep(t)) => tasks' = tasks]_vars
    /\ \A t \in SpecIds : Evicted(t) ~> (Evicted(t) /\ pc[t] = "done")

C19_Witness ==
    \E t \in SpecIds :
        /\ Evicted(t)
        /\ pc[t] = "done"
        /\ fault[t] = "none"
        /\ outputFile[t] = "muxed"
        /\ lastCall.op = "updateTaskStatus"
        /\ lastCall.id \notin DOMAIN tasks

(* C20: setTaskResult on a known id stores the result, sets the status to
   completed when result.success is true and to failed otherwise, and sets
   progress to 100, whatever the task's status and progress were before; no
   other task changes.  (Every step of RegistrySpec is a call, lastCall'
   being the call made.) *)
C20_SetTaskResult ==
    [][(lastCall'.op = "setTaskResult" /\ lastCall'.id \in DOMAIN tasks) =>
          LET id == lastCall'.id
          IN  /\ DOMAIN tasks' = DOMAIN tasks
              /\ tasks'[id].result = lastCall'.result
              /\ tasks'[id].status =
                     IF lastCall'.result.success THEN "completed" ELSE "failed"
              /\ tasks'[id].progress = 100
              /\ tasks'[id].parameters = tasks[id].parameters
              /\ \A k \in DOMAIN tasks \ {id} : tasks'[k] = tasks[k]]_vars

C20_Witness ==
    \E id \in DOMAIN tasks :
        /\ lastCall.op = "setTaskResult"
        /\ lastCall.id = id
        /\ lastCall.before.status = "completed"
        /\ lastCall.before.progress = 150
        /\ ~lastCall.result.success
        /\ tasks[id].status = "failed"
        /\ tasks[id].progress = 100

(* C21: after any sequence of registry operations with any numeric
   arguments, every task's progress lies in [0,100].
   Violated: updateTaskStatus stores its progress argument as it is. *)
C21_ProgressInRange ==
    \A id \in DOMAIN tasks :
        tasks[id].progress >= 0 /\ tasks[id].progress <= 100

(* C22: every state a poller can observe is consistent: the status is
   completed iff a result with success = true is stored, failed iff a result
   with success = false is stored, a pending or processing task has no
   result; a poll response carries a result or an error payload exactly for
   terminal tasks. *)
C22_ObservedConsistent ==
    /\ \A id \in DOMAIN tasks :
          LET k == tasks[id]
          IN  /\ k.status = "completed" <=> (k.result.present /\ k.result.success)
              /\ k.status = "failed" <=> (k.result.present /\ ~k.result.success)
              /\ k.status \in {"pending", "processing"} => ~k.result.present
    /\ polled.code = 200 =>
          /\ polled.hasResult <=> polled.status = "completed"
          /\ polled.hasError <=> polled.status = "failed"
          /\ ~(polled.hasResult /\ polled.hasError)

C22_Witness ==
    \E t \in SpecIds :
        /\ Failed(t)
        /\ polled.code = 200
        /\ polled.hasError
        /\ polled.progress = 100

\* The validity rules as the claim lists them, numbers in halves: fps within
\* 1..60 is 2..120.
RuleValidTrack(tr, duration) ==
    /\ tr.object
    /\ tr.url = "ok"
    /\ IsNumber(tr.start) /\ tr.start >= 0 /\ tr.start < duration
    /\ tr.end = Undefined \/ (IsNumber(tr.end) /\ tr.end > tr.start /\ tr.end <= duration)
    /\ IsNumber(tr.volume) /\ tr.volume >= 0 /\ tr.volume <= 2

RuleValid(req) ==
    /\ IsNumber(req.width) /\ req.width > 0
    /\ IsNumber(req.height) /\ req.height > 0
    /\ IsNumber(req.duration) /\ req.duration > 0
    /\ req.render = "code"
    /\ req.fps = Undefined \/ (IsNumber(req.fps) /\ req.fps >= 2 /\ req.fps <= 120)
    /\ req.quality \in {"undefined", "low", "medium", "high"}
    /\ req.audio.kind \in {"undefined", "array"}
    /\ \A i \in DOMAIN req.audio.items :
          RuleValidTrack(req.audio.items[i], req.duration)

(* C23: a submit request that violates a validity rule is rejected with a
   400 response; no task is created and no worker is started.
   Violated: an fps between 0 and 1 passes the check `fps <= 0 || fps > 60`. *)
C23_InvalidRequestRejected ==
    \A t \in AllIds :
        (request[t] # NoRequest /\ ~RuleValid(request[t])) =>
            /\ response[t].code = 400
            /\ t \notin DOMAIN tasks
            /\ pc[t] = "idle"

\* No entry under this id.
NoEntry == [status |-> "absent"]

\* What the registry holds under an id.
Entry(id) == IF id \in DOMAIN tasks THEN tasks[id] ELSE NoEntry

(* C24: with several jobs running, a step of the worker of one task leaves
   the entry of every other task as it was: status, progress, result and
   timestamps. *)
C24_OnlyOwnTask ==
    [][\A t, u \in AllIds :
          (t # u /\ ConcWorker(t)) => Entry(u)' = Entry(u)]_vars

C24_Witness ==
    /\ DOMAIN tasks = AllIds
    /\ tasks["t1"].status = "completed"
    /\ tasks["t2"].status = "processing"
    /\ tasks["t2"].progress > 75 /\ tasks["t2"].progress < 100
    /\ tasks["t1"].updatedAt < tasks["t2"].updatedAt

\* The worker named its scratch paths and has not ended.
Running(t) == pc[t] \notin {"idle", "done"}

(* C25: two jobs whose workers overlap in time never use the same frames
   directory or the same output path.
   Violated: both names are made of Date.now() alone. *)
C25_DistinctScratchPaths ==
    \A t, u \in AllIds :
        (t # u /\ Running(t) /\ Running(u)) =>
            /\ framesStamp[t] # framesStamp[u]
            /\ outputStamp[t] # outputStamp[u]

(* C26: when the page holds images after the injection, the frame is
   captured only after every image present has loaded or errored.
   Violated: the wait counts only the images present when it starts, its
   rejection and the network-idle timeout are swallowed. *)
C26_CapturedAfterImages ==
    (imagePc = "captured" /\ (waited # {} \/ waitRejected)) =>
        \A i \in DOMAIN images : images[i] # "pending"

\* The cache lookup of a request is made in this step.
FftLookup(req) == FftHit(req) \/ FftMiss(req)

(* C27: an audio-fft request made less than an hour after an analysed
   (cached: false) response to a request with the same url, time, bars,
   smoothness and frames is answered with cached: true and the spectrum of
   that response.
   Violated: the write of the cache file may fail silently, and the file is
   overwritten by an overlapping request of another duration. *)
C27_SecondRequestCached ==
    [][\A req, first \in FftRequests :
          (/\ FftLookup(req)
           /\ getCacheKey(first) = getCacheKey(req)
           /\ fftFirst[first] # NoStamp
           /\ fftNow - fftFirst[first] < CacheValidMs)
              => /\ FftHit(req)
                 /\ fftLast'.spectrum = analyzeAudioFFT(first)]_vars

(* C28: once a task is completed or failed, no later event changes any of
   its fields.
   Violated: the encoder is left running when its deadline fires, and its
   progress reports go on calling updateTaskProgress, which does not look at
   the status. *)
C28_TerminalFrozen ==
    [][\A t \in AllIds : Terminal(t) => Entry(t)' = Entry(t)]_vars

\* The changes of status the claim allows; a task is created pending and set
\* to processing by the head of its worker.
AllowedMoves ==
    {<<"absent", "pending">>, <<"absent", "processing">>,
     <<"pending", "processing">>,
     <<"processing", "completed">>, <<"processing", "failed">>}

(* C29: the status of a task only moves pending -> processing -> completed
   or pending -> processing -> failed, never backwards and never between
   completed and failed; the result is stored with the move to the terminal
   status and never replaced. *)
C29_StatusMoves ==
    [][\A t \in AllIds :
          LET before == Entry(t)
              after == Entry(t)'
          IN  /\ after.status # before.status =>
                     <<before.status, after.status>> \in AllowedMoves
              /\ after.status # "absent" =>
                     (after.status \in {"completed", "failed"}
                          <=> after.result.present)
              /\ (before.status # "absent" /\ before.result.present) =>
                     after.result = before.result]_vars

C29_Witness ==
    \E t \in AllIds :
        /\ Failed(t)
        /\ tasks[t].result.present
        /\ tasks[t].progress < 100
        /\ pc[t] = "done"

(* C30: within one job every frame is captured and the surface is closed
   before the encoder starts, mixing and the replacement happen only after
   the encoder has ended, and the task is completed only when the worker is
   done.
   Violated: the encoder is started with the browser open when a
   context.close() or browser.close() was rejected. *)
C30_StagesInOrder ==
    \A t \in AllIds :
        /\ encoder[t] # "idle" =>
              /\ Len(framePaths[t]) = TotalFrames(parameters[t])
              /\ browser[t] = "closed"
        /\ pc[t] \in {"mixing", "unlink", "rename"} => encoder[t] = "ended"
        /\ Completed(t) => pc[t] = "done"

(* C32: every progress value written for a report of the encoder lies in
   the range reserved for encoding, base + 65 to base + 85.
   Violated: the percent of a report is used as it comes, and one above 100
   gives a value above base + 85. *)
C32_EncodingProgressInRange ==
    [][\A t \in AllIds :
          (EncoderProgress(t) /\ t \in DOMAIN tasks') =>
              /\ tasks'[t].progress >= BaseProgress(t) + FrameShare
              /\ tasks'[t].progress
                     <= BaseProgress(t) + FrameShare + EncodeShare]_vars

(* C40: a response served from the cache carries the spectrum a fresh
   analysis of the same request would give.
   Violated: the duration is not part of the cache key. *)
C40_CachedIsFresh ==
    [][\A req \in FftRequests :
          FftHit(req) => fftLast'.spectrum = analyzeAudioFFT(req)]_vars

(* C39: cleanupOldTasks with a threshold removes exactly the tasks whose
   last update is older than the threshold and leaves every other entry as
   it was; a task updated within the threshold is never removed. *)
C39_CleanupExact ==
    [][\A h \in HoursArgs :
          CallCleanupHours(h) =>
              /\ DOMAIN tasks' =
                     {k \in DOMAIN tasks : now - tasks[k].updatedAt <= h * HourMs}
              /\ \A k \in DOMAIN tasks' : tasks'[k] = tasks[k]]_vars

C39_Witness ==
    /\ lastCall.op = "cleanupOldTasks"
    /\ lastCall.before.progress = 2
    /\ DOMAIN tasks = {"t2"}
    /\ now - tasks["t2"].updatedAt = HourMs

(* C31: every task whose worker has started eventually is completed or
   failed, also when a collaborator never responds.
   Violated: the wait for the audio mixer has no deadline. *)
C31_TerminatesDespiteHang ==
    \A t \in SpecIds : (pc[t] # "idle") ~> Terminal(t)

\* The places of the filter named op in the chain c.
Places(c, op) == {j \in DOMAIN c : c[j].op = op}

(* C33: for each validated track i (from 0), in request order, the filter
   chain reads audio input i+1, applies the track's volume (anull when the
   volume is 1), then a delay of round(start * 1000) ms iff start > 0, then
   a trim to the duration end - start iff end is defined, in that order. *)
C33_FilterChainOrder ==
    \A k \in 1..Len(audioFilters) :
        LET tr == mixInput.tracks[k]
            c == audioFilters[k]
            delays == Places(c, "adelay")
            trims == Places(c, "atrim")
        IN  /\ c[1] = [op |-> "input", arg |-> k]
            /\ c[2] = IF tr.volume = FullVolume
                      THEN [op |-> "anull", arg |-> 0]
                      ELSE [op |-> "volume", arg |-> tr.volume]
            /\ Places(c, "input") = {1}
            /\ Places(c, "volume") \cup Places(c, "anull") = {2}
            /\ (delays # {}) <=> (tr.start > 0)
            /\ (trims # {}) <=> (tr.end # NoEnd)
            /\ Cardinality(delays) <= 1 /\ Cardinality(trims) <= 1
            /\ \A j \in delays : j > 2 /\ c[j].arg = tr.start * HalfMs
            /\ \A j \in trims : j > 2 /\ c[j].arg = tr.end - tr.start
            /\ \A j \in delays : \A l \in trims : j < l
            /\ c[Len(c)] = [op |-> "label", arg |-> k - 1]
            /\ Len(c) = 3 + Cardinality(delays) + Cardinality(trims)

C33_Witness ==
    /\ finalAudio # NoAudio
    /\ Len(audioFilters) = 2
    /\ mixInput.tracks[1].volume = FullVolume
    /\ mixInput.tracks[1].start = 0
    /\ mixInput.tracks[2].volume # FullVolume
    /\ mixInput.tracks[2].start > 0
    /\ mixInput.tracks[2].end # NoEnd
    /\ Len(audioFilters[2]) = 5

(* C34: for every track with start s and end e (0 <= s < e <= duration)
   whose source is at least e - s long, the track's sound in the final
   output occupies exactly the interval from s to e.
   Violated: the delay is applied before the trim, so the trim to e - s
   cuts the delayed stream, silence included, at e - s and not at e. *)
C34_TrackOccupiesStartToEnd ==
    finalAudio # NoAudio =>
        \A k \in 1..Len(filtered) :
            LET tr == mixInput.tracks[k]
                soundEnd == Min(filtered[k], finalAudio)
                soundStart == Min(tr.start, soundEnd)
            IN  (tr.end # NoEnd /\ tr.len >= tr.end - tr.start) =>
                    /\ soundStart = tr.start
                    /\ soundEnd = tr.end

(* C38: every generic HTTP download yields a file or fails after finitely
   many steps, for every behaviour of the server.
   Violated: redirects are followed without a limit, and a circle of
   redirects whose servers close the connection is followed for ever. *)
C38_DownloadSettles ==
    (dlState = "requesting") ~> (dlState \in {"resolved", "rejected"})

(* C37: for every frame the context passed to the render function has
   time = frame / fps, the frame index and the job's duration, width and
   height, whatever keys args contains; args only adds further keys.
   Violated: args is spread after the computed entries, so a key of args
   named time, frame, duration, width or height replaces the computed one. *)
C37_ContextFieldsKept ==
    [][\A f \in 0..(MaxDurHalves * 2) :
          CtxFrame(f) =>
              /\ context'["time"] = FrameTime(f, ctxJob)
              /\ context'["frame"] = f
              /\ context'["duration"] = ctxJob.durHalves
              /\ context'["width"] = ctxJob.width
              /\ context'["height"] = ctxJob.height
              /\ \A k \in DOMAIN ctxJob.args : context'[k] = ctxJob.args[k]]_vars

(* C35: the i-th audio track of the request is the i-th validated track and
   the i-th audio input of the mixer, whatever the order in which the
   validations of a batch finish. *)
C35_TrackOrderKept ==
    \A t \in SpecIds :
        /\ (pc[t] \in {"mkdir", "audioCleanup"} /\ validatedAudioTracks[t] > 0) =>
              /\ Len(validatedOrder) = Len(audioTracks)
              /\ \A i \in 1..Len(audioTracks) : validatedOrder[i] = i
        /\ audioInputs # <<>> =>
              /\ Len(audioInputs) = Len(audioTracks)
              /\ \A i \in 1..Len(audioTracks) : audioInputs[i] = i

C35_Witness ==
    /\ outOfOrder
    /\ Len(audioTracks) > maxConcurrency
    /\ audioInputs # <<>>
    /\ audioInputs[Len(audioTracks)] = Len(audioTracks)

(* C36: when a task whose audio tracks all validated reaches a terminal
   status, every audio file downloaded for the job has been deleted, whether
   the job completed or failed in a later stage, and no local file supplied
   by the caller has been deleted.
   Violated: cleanupAudioFiles logs a rejected unlink and goes on, and the
   task is completed or failed with the file left in temp/audio. *)
C36_DownloadsDeletedAtTerminal ==
    \A t \in SpecIds :
        /\ (Terminal(t) /\ validatedAudioTracks[t] > 0) => audioDir = {}
        /\ \A k \in unlinked : ~isLocalFile(audioTracks[k])

====
